---- MODULE Spec2Model ----
(***************************************************************************)
(* Statement distribution v2 (asynchronous backing): the orchestrator of   *)
(* polkadot/node/network/statement-distribution/src/v2/mod.rs as a state   *)
(* machine.  The orchestrator owns `State` and processes one event to      *)
(* completion before the next; every action below is one event handler.    *)
(* The sub-modules cluster, grid, candidates, statement_store, requests    *)
(* and groups are modelled by the operators of the first sections.         *)
(***************************************************************************)
EXTENDS Integers, Sequences, FiniteSets, TLC

(***************************************************************************)
(* Chain state and identities of the checked scenario.                     *)
(***************************************************************************)

\* The relay parent (and active leaf) whose statement protocol is exercised.
RP == "rp1"

\* A relay parent the node never activated.
RPUnknown == "rp9"

\* The session of RP.
SessionOfRP == 1

\* The child of RP, in the session of RP, and the first block of the next
\* session.
RPChild == "rp2"
RPNext == "rp3"

Hashes == {RP, RPChild, RPNext}

NextSession == SessionOfRP + 1

Sessions == {SessionOfRP, NextSession}

\* request_session_index_for_child
session_index_for_child(h) == IF h = RPNext THEN NextSession ELSE SessionOfRP

\* The relay parents a leaf allows: the leaf and its ancestors of the same
\* session, here one block deep.
AllowedUnder(leaf) == IF leaf = RPChild THEN {RPChild, RP} ELSE {leaf}

\* Parachains of the claim queue.
ParaA == "paraA"
ParaB == "paraB"
ParaC == "paraC"

GroupIndices == {0, 1, 2}

\* SessionInfo.validator_groups in seat order; group 0 is the local group.
GroupSeq(g) == IF g = 0 THEN <<0, 1, 2>> ELSE IF g = 1 THEN <<3, 4>> ELSE <<5, 6>>

Validators == {0, 1, 2, 3, 4, 5, 6}

\* A validator index outside the session.
UnknownValidator == 8

\* The local node's validator index (found through the keystore).
LocalIndex == 0

\* SessionInfo.discovery_keys: the authority discovery id of validator v.
discovery_keys(v) == 10 + v

\* An authority discovery id that belongs to no validator of the session.
ForeignAuthority == 19

AuthorityIds == {discovery_keys(v) : v \in Validators} \cup {ForeignAuthority}

\* PerSessionState.authority_lookup, the inverse of discovery_keys.
authority_lookup(a) == IF a - 10 \in Validators THEN a - 10 ELSE -1

PeerIds == {"pA", "pB", "pC"}

\* The authority id each peer announces when it connects.
AnnouncedAuthority(p) ==
    CASE p = "pA" -> discovery_keys(1)
      [] p = "pB" -> discovery_keys(2)
      [] OTHER -> discovery_keys(3)

CandidateHashes == {"c1", "c2", "c3", "c4"}

ParentHeads == {"h1", "h2"}

\* Candidates are content addressed: the hash fixes the receipt and the
\* persisted validation data.
Receipt(c) ==
    CASE c = "c1" -> [para |-> ParaA, relay_parent |-> RP, parent |-> "h1"]
      [] c = "c2" -> [para |-> ParaA, relay_parent |-> RP, parent |-> "h2"]
      [] c = "c4" -> [para |-> ParaA, relay_parent |-> RPUnknown, parent |-> "h1"]
      [] OTHER -> [para |-> ParaB, relay_parent |-> RP, parent |-> "h1"]

\* descriptor.para_head: the head data hash a candidate outputs.
para_head(c) == IF c = "c1" THEN "h2" ELSE "h3"

Kinds == {"Seconded", "Valid"}

\* CompactStatement
Stmt(k, c) == [kind |-> k, c |-> c]

NoValidator == -1

NoGroup == -1

(***************************************************************************)
(* groups.rs                                                               *)
(***************************************************************************)

\* Groups::by_validator_index
by_validator_index(v) ==
    IF v \in {0, 1, 2} THEN 0
    ELSE IF v \in {3, 4} THEN 1
    ELSE IF v \in {5, 6} THEN 2
    ELSE NoGroup

\* The set of validators of a group.
GroupSet(g) == {GroupSeq(g)[i] : i \in 1..Len(GroupSeq(g))}

\* The seat of validator v in group g (1-based), 0 when v is not in it.
SeatOf(g, v) ==
    IF v \in GroupSet(g)
    THEN CHOOSE i \in 1..Len(GroupSeq(g)) : GroupSeq(g)[i] = v
    ELSE 0

Min(a, b) == IF a < b THEN a ELSE b

\* The session's minimum backing votes.
minimum_backing_votes == 2

\* Groups::get_size_and_backing_threshold, second component.
backing_threshold(g) == Min(Len(GroupSeq(g)), minimum_backing_votes)

(***************************************************************************)
(* statement_store.rs                                                      *)
(* A store is a record [known, backing]: the set of stored statements      *)
(* [v, st] and the subset of them known by the backing subsystem.          *)
(***************************************************************************)

EmptyStore == [known |-> {}, backing |-> {}]

SignedStmt(v, st) == [v |-> v, st |-> st]

\* StatementStore::seconded_count
seconded_count(store, v) ==
    Cardinality({x \in store.known : x.v = v /\ x.st.kind = "Seconded"})

\* StatementStore::insert: [store, result] with result "fresh", "known" or
\* "ValidatorUnknown".  The store is built from the session's groups alone
\* and its only error is ValidatorUnknown.
StoreInsert(store, v, st, local) ==
    IF v \notin Validators
    THEN [store |-> store, result |-> "ValidatorUnknown"]
    ELSE IF SignedStmt(v, st) \in store.known
    THEN [store |-> [store EXCEPT !.backing =
                        IF local THEN @ \cup {SignedStmt(v, st)} ELSE @],
          result |-> "known"]
    ELSE [store |-> [known |-> store.known \cup {SignedStmt(v, st)},
                     backing |-> IF local
                                 THEN store.backing \cup {SignedStmt(v, st)}
                                 ELSE store.backing],
          result |-> "fresh"]

\* StatementStore::validator_statement
validator_statement(store, v, st) == SignedStmt(v, st) \in store.known

\* A StatementFilter over a group of n seats.
BlankFilter(n) == [len |-> n, seconded |-> {}, validated |-> {}]

FullFilter(n) == [len |-> n, seconded |-> 1..n, validated |-> 1..n]

\* StatementFilter::contains
FilterContains(f, seat, kind) ==
    IF kind = "Seconded" THEN seat \in f.seconded ELSE seat \in f.validated

\* StatementFilter::backing_validators
backing_validators(f) == Cardinality(f.seconded \cup f.validated)

\* StatementFilter::has_seconded
has_seconded(f) == f.seconded # {}

\* StatementStore::fill_statement_filter through local_knowledge_filter
local_knowledge_filter(g, c, store) ==
    [len |-> Len(GroupSeq(g)),
     seconded |-> {i \in 1..Len(GroupSeq(g)) :
        SignedStmt(GroupSeq(g)[i], Stmt("Seconded", c)) \in store.known},
     validated |-> {i \in 1..Len(GroupSeq(g)) :
        SignedStmt(GroupSeq(g)[i], Stmt("Valid", c)) \in store.known}]

\* StatementStore::group_statements: the stored statements of group g about
\* candidate c that filter f selects (AND semantics), Seconded first.
group_statements_set(store, g, c, f) ==
    {x \in store.known :
        /\ x.st.c = c
        /\ x.v \in GroupSet(g)
        /\ FilterContains(f, SeatOf(g, x.v), x.st.kind)}

(***************************************************************************)
(* cluster.rs                                                              *)
(* A cluster tracker is a record [validators, seconding_limit, knowledge,  *)
(* pending]; knowledge maps each cluster validator to a set of tagged      *)
(* knowledge records, pending to a set of (originator, statement).         *)
(***************************************************************************)

\* TaggedKnowledge::IncomingP2P / OutgoingP2P of Knowledge::Specific
Specific(tag, st, o) == [tag |-> tag, k |-> st.kind, c |-> st.c, o |-> o]

\* TaggedKnowledge::IncomingP2P / OutgoingP2P of Knowledge::General
General(tag, c) == [tag |-> tag, k |-> "General", c |-> c, o |-> NoValidator]

\* TaggedKnowledge::Seconded
SecondedTag(c) == [tag |-> "Seconded", k |-> "General", c |-> c, o |-> NoValidator]

\* ClusterTracker::new
NewClusterTracker(vals, limit) ==
    [validators |-> vals,
     seconding_limit |-> limit,
     knowledge |-> [v \in vals |-> {}],
     pending |-> [v \in vals |-> {}]]

is_in_group(ct, v) == v \in ct.validators

Knows(ct, v) == IF v \in ct.validators THEN ct.knowledge[v] ELSE {}

\* ClusterTracker::they_know_statement
they_know_statement(ct, v, o, st) ==
    \/ Specific("Out", st, o) \in Knows(ct, v)
    \/ Specific("In", st, o) \in Knows(ct, v)

\* ClusterTracker::knows_candidate
knows_candidate(ct, v, c) ==
    \/ General("Out", c) \in Knows(ct, v)
    \/ General("In", c) \in Knows(ct, v)
    \/ SecondedTag(c) \in Knows(ct, v)

\* ClusterTracker::can_request
cluster_can_request(ct, v, c) ==
    /\ v \in ct.validators
    /\ General("Out", c) \in Knows(ct, v)
    /\ General("In", c) \notin Knows(ct, v)

\* ClusterTracker::seconded_already_or_within_limit
seconded_already_or_within_limit(ct, v, c) ==
    Cardinality({t \in Knows(ct, v) : t.tag = "Seconded" /\ t.c # c})
        < ct.seconding_limit

\* ClusterTracker::can_receive: "Ok", "WithPrejudice" or the rejection.
can_receive(ct, sender, o, st) ==
    IF ~is_in_group(ct, sender) \/ ~is_in_group(ct, o) THEN "NotInGroup"
    ELSE IF Specific("In", st, o) \in Knows(ct, sender) THEN "Duplicate"
    ELSE IF st.kind = "Seconded"
    THEN IF Cardinality({t \in Knows(ct, sender) :
                t.tag = "In" /\ t.k = "Seconded" /\ t.o = o})
                = ct.seconding_limit
         THEN "ExcessiveSeconded"
         ELSE IF seconded_already_or_within_limit(ct, o, st.c)
              THEN "Ok" ELSE "WithPrejudice"
    ELSE IF ~knows_candidate(ct, sender, st.c) THEN "CandidateUnknown"
    ELSE "Ok"

\* ClusterTracker::can_send
can_send(ct, target, o, st) ==
    /\ is_in_group(ct, target) /\ is_in_group(ct, o)
    /\ ~they_know_statement(ct, target, o, st)
    /\ IF st.kind = "Seconded"
       THEN seconded_already_or_within_limit(ct, o, st.c)
       ELSE knows_candidate(ct, target, st.c)

\* ClusterTracker::note_issued
note_issued(ct, o, st) ==
    LET pend == [v \in ct.validators |->
                    IF ~they_know_statement(ct, v, o, st)
                    THEN ct.pending[v] \cup {SignedStmt(o, st)}
                    ELSE ct.pending[v]]
        know == IF st.kind = "Seconded" /\ o \in ct.validators
                THEN [ct.knowledge EXCEPT ![o] = @ \cup {SecondedTag(st.c)}]
                ELSE ct.knowledge
    IN [ct EXCEPT !.pending = pend, !.knowledge = know]

\* ClusterTracker::note_received
note_received(ct, sender, o, st) ==
    LET pend == [v \in ct.validators |->
                    IF v = sender THEN ct.pending[v] \ {SignedStmt(o, st)}
                    ELSE IF ~they_know_statement(ct, v, o, st)
                    THEN ct.pending[v] \cup {SignedStmt(o, st)}
                    ELSE ct.pending[v]]
        k1 == [ct.knowledge EXCEPT ![sender] =
                  @ \cup {Specific("In", st, o)}
                    \cup (IF st.kind = "Seconded"
                          THEN {General("In", st.c)} ELSE {})]
        ct1 == [ct EXCEPT !.knowledge = k1]
        k2 == IF st.kind = "Seconded"
                 /\ seconded_already_or_within_limit(ct1, o, st.c)
              THEN [k1 EXCEPT ![o] = @ \cup {SecondedTag(st.c)}]
              ELSE k1
    IN [ct EXCEPT !.pending = pend, !.knowledge = k2]

\* ClusterTracker::note_sent
note_sent(ct, target, o, st) ==
    LET k1 == [ct.knowledge EXCEPT ![target] =
                  @ \cup {Specific("Out", st, o)}
                    \cup (IF st.kind = "Seconded"
                          THEN {General("Out", st.c)} ELSE {})]
        k2 == IF st.kind = "Seconded"
              THEN [k1 EXCEPT ![o] = @ \cup {SecondedTag(st.c)}]
              ELSE k1
    IN [ct EXCEPT !.knowledge = k2,
                  !.pending[target] = @ \ {SignedStmt(o, st)}]

\* ClusterTracker::pending_statements_for
cluster_pending_statements_for(ct, v) ==
    IF v \in ct.validators THEN ct.pending[v] ELSE {}

\* ClusterTracker::senders_for_originator
senders_for_originator(ct, o) ==
    IF is_in_group(ct, o) THEN ct.validators ELSE {}

(***************************************************************************)
(* candidates.rs                                                           *)
(* The Candidates store maps each candidate hash to a record               *)
(* [state, claims, group, importable_under]: state is "None",              *)
(* "Unconfirmed" or "Confirmed"; claims are the advertisements of peers    *)
(* (CandidateClaims); group is the canonical group of a confirmed          *)
(* candidate; importable_under holds the leaves under which a confirmed    *)
(* candidate is importable.                                                *)
(***************************************************************************)

NoCandidate == [state |-> "None", claims |-> {}, group |-> NoGroup,
                importable_under |-> {}]

\* CandidateClaims of a peer; has_parent tells whether the advertisement
\* named a parent head and para (a manifest) or not (a statement).
Claim(peer, rp, g, has_parent, parent, para) ==
    [peer |-> peer, rp |-> rp, group |-> g, has_parent |-> has_parent,
     parent |-> parent, para |-> para]

\* Two advertisements of one peer about one candidate conflict.
ClaimsConflict(a, b) ==
    \/ a.group # b.group
    \/ a.rp # b.rp
    \/ a.has_parent /\ b.has_parent /\ (a.parent # b.parent \/ a.para # b.para)

\* CandidateClaims::check against a confirmed candidate.
ClaimCheck(cl, c, g) ==
    /\ cl.rp = Receipt(c).relay_parent
    /\ cl.group = g
    /\ cl.has_parent => (cl.parent = Receipt(c).parent /\ cl.para = Receipt(c).para)

is_confirmed(cands, c) == cands[c].state = "Confirmed"

\* ConfirmedCandidate::is_importable(None) / Candidates::is_importable
is_importable(cands, c) ==
    cands[c].state = "Confirmed" /\ cands[c].importable_under # {}

\* Candidates::insert_unconfirmed: [cands, ok]; ok = FALSE is BadAdvertisement.
insert_unconfirmed(cands, cl, c) ==
    IF cands[c].state = "Confirmed"
    THEN [cands |-> cands, ok |-> ClaimCheck(cl, c, cands[c].group)]
    ELSE IF \E old \in cands[c].claims : old.peer = cl.peer /\ ClaimsConflict(old, cl)
    THEN [cands |-> cands, ok |-> FALSE]
    ELSE [cands |-> [cands EXCEPT ![c] =
                        [state |-> "Unconfirmed", claims |-> @.claims \cup {cl},
                         group |-> NoGroup, importable_under |-> {}]],
          ok |-> TRUE]

\* Candidates::confirm_candidate: [cands, some, correct, incorrect], the
\* PostConfirmation with its reckoning; some = FALSE when the candidate was
\* confirmed before (the entry is kept as it is).
confirm_candidate(cands, c, g) ==
    IF cands[c].state = "Confirmed"
    THEN [cands |-> cands, some |-> FALSE, correct |-> {}, incorrect |-> {}]
    ELSE [cands |-> [cands EXCEPT ![c] =
                        [state |-> "Confirmed", claims |-> {}, group |-> g,
                         importable_under |-> {}]],
          some |-> TRUE,
          correct |-> {cl.peer : cl \in {x \in cands[c].claims : ClaimCheck(x, c, g)}},
          incorrect |-> {cl.peer : cl \in {x \in cands[c].claims : ~ClaimCheck(x, c, g)}}]

\* Candidates::note_importable_under for a confirmed candidate.
note_importable_under(cands, c, leaves) ==
    IF cands[c].state = "Confirmed"
    THEN [cands EXCEPT ![c].importable_under = @ \cup leaves]
    ELSE cands

(***************************************************************************)
(* requests.rs                                                             *)
(* The request manager maps CandidateIdentifier records [rp, c, g] to      *)
(* [cluster, known_by, in_flight, next_retry_time]; the response manager   *)
(* holds the dispatched requests [id, peer, unwanted, threshold] awaiting  *)
(* a response.  next_retry_time is NoRetryTime or the ticks that are left  *)
(* until the retry time of the request, 0 once it is reached.              *)
(***************************************************************************)

\* REQUEST_RETRY_DELAY, in seconds.
REQUEST_RETRY_DELAY == 1

\* The resolution of the retry times: ticks per second.
TicksPerSecond == 2

\* The next_retry_time of a request that has not failed (None).
NoRetryTime == -1

CandidateIdentifier(rp, c, g) == [rp |-> rp, c |-> c, g |-> g]

NewRequest == [cluster |-> FALSE, known_by |-> <<>>, in_flight |-> FALSE,
               next_retry_time |-> NoRetryTime]

SeqSet(q) == {q[i] : i \in 1..Len(q)}

\* RequestManager::get_or_insert followed by Entry::add_peer
get_or_insert_add_peer(reqs, id, peer) ==
    LET e == IF id \in DOMAIN reqs THEN reqs[id] ELSE NewRequest
        e2 == IF peer \in SeqSet(e.known_by) THEN e
              ELSE [e EXCEPT !.known_by = Append(@, peer)]
    IN [x \in DOMAIN reqs \cup {id} |-> IF x = id THEN e2 ELSE reqs[x]]

\* Entry::set_cluster_priority
set_cluster_priority(reqs, id) == [reqs EXCEPT ![id].cluster = TRUE]

\* RequestManager::remove_for
remove_for(reqs, c) == [x \in {i \in DOMAIN reqs : i.c # c} |-> reqs[x]]

\* RequestManager::remove_by_relay_parent
remove_by_relay_parent(reqs, rp) ==
    [x \in {i \in DOMAIN reqs : i.rp # rp} |-> reqs[x]]

\* RequestManager::has_pending_requests
has_pending_requests(reqs) == DOMAIN reqs # {}

\* The retry times that lie ahead.
PendingRetryTimes(reqs) ==
    {reqs[x].next_retry_time : x \in {y \in DOMAIN reqs : reqs[y].next_retry_time > 0}}

\* A request manager that reports the latest retry time.
latest_retry_time(reqs) ==
    IF PendingRetryTimes(reqs) = {} THEN NoRetryTime
    ELSE CHOOSE t \in PendingRetryTimes(reqs) : \A u \in PendingRetryTimes(reqs) : u <= t

\* RequestManager::next_retry_time: the earliest retry time that lies ahead,
\* NoRetryTime when there is none.
next_retry_time(reqs) ==
    IF PendingRetryTimes(reqs) = {} THEN NoRetryTime
    ELSE CHOOSE t \in PendingRetryTimes(reqs) : \A u \in PendingRetryTimes(reqs) : t <= u

\* The retry times after t ticks have passed.
time_passes(reqs, t) ==
    [x \in DOMAIN reqs |->
        IF reqs[x].next_retry_time > 0
        THEN [reqs[x] EXCEPT !.next_retry_time = IF @ > t THEN @ - t ELSE 0]
        ELSE reqs[x]]

\* next_retry: the delay until next_retry_time(reqs) has passed.
next_retry(reqs) == time_passes(reqs, next_retry_time(reqs))

(***************************************************************************)
(* grid.rs                                                                 *)
(* SessionTopologyView: for each group, the validators the local node      *)
(* sends manifests to and the validators it receives manifests from.       *)
(* A grid tracker is a record [received, unconfirmed, backed,              *)
(* pending_manifests, pending_statements].                                 *)
(***************************************************************************)

\* SessionTopologyView.group_views[g].sending
sending(g) == IF g = 0 THEN {3} ELSE {}

\* SessionTopologyView.group_views[g].receiving: validator 3 is the local
\* node's grid neighbour, a member of group 1 and a relay for group 2.
receiving(g) == IF g = 0 THEN {} ELSE {3}

\* SessionTopologyView::iter_sending_for_group
iter_sending_for_group(g, kind) ==
    IF kind = "Full" THEN receiving(g) ELSE sending(g)

NoFilter == BlankFilter(0)

FilterSet(f, seat, kind) ==
    IF kind = "Seconded" THEN [f EXCEPT !.seconded = @ \cup {seat}]
    ELSE [f EXCEPT !.validated = @ \cup {seat}]

\* MutualKnowledge::new; hl / hr tell whether local / remote knowledge is Some.
NoMutual == [hl |-> FALSE, l |-> NoFilter, hr |-> FALSE, r |-> NoFilter,
             rc |-> NoFilter]

NoBacked == [present |-> FALSE, group |-> NoGroup, local |-> NoFilter,
             mutual |-> [v \in Validators |-> NoMutual]]

\* GridTracker::default
EmptyGrid ==
    [received |-> {}, unconfirmed |-> {},
     backed |-> [c \in CandidateHashes |-> NoBacked],
     pending_manifests |-> {}, pending_statements |-> {}]

\* ManifestSummary as received from validator v about candidate c.
Summary(v, c, g, parent, know) ==
    [v |-> v, c |-> c, group |-> g, parent |-> parent, know |-> know]

\* KnownBackedCandidate::has_sent_manifest_to
has_sent_manifest_to(kb, v) == v \in Validators /\ kb.mutual[v].hl

\* KnownBackedCandidate::has_received_manifest_from
has_received_manifest_from(kb, v) == v \in Validators /\ kb.mutual[v].hr

\* KnownBackedCandidate::pending_statements: [some, filter]
kb_pending_statements(kb, v) ==
    IF kb.mutual[v].hl /\ kb.mutual[v].hr
    THEN [some |-> TRUE,
          filter |-> [len |-> kb.local.len,
                      seconded |-> kb.local.seconded \ kb.mutual[v].r.seconded,
                      validated |-> kb.local.validated \ kb.mutual[v].r.validated]]
    ELSE [some |-> FALSE, filter |-> NoFilter]

\* decompose_statement_filter: the (originator, statement) pairs of a filter.
decompose_statement_filter(g, c, f) ==
    {SignedStmt(GroupSeq(g)[i], Stmt("Seconded", c)) :
        i \in f.seconded \cap (1..Len(GroupSeq(g)))}
    \cup {SignedStmt(GroupSeq(g)[i], Stmt("Valid", c)) :
        i \in f.validated \cap (1..Len(GroupSeq(g)))}

\* The pending statements towards v that a filter over candidate c adds.
PendingOf(v, g, c, f) ==
    {[v |-> v, o |-> x.v, st |-> x.st] : x \in decompose_statement_filter(g, c, f)}

\* The manifests validator v sent before, and the one about candidate c.
ReceivedFrom(grid, v) == {m \in grid.received : m.v = v}

HasReceived(grid, v, c) == \E m \in grid.received : m.v = v /\ m.c = c

ReceivedOf(grid, v, c) == CHOOSE m \in grid.received : m.v = v /\ m.c = c

\* ReceivedManifests.seconded_counts[(group, seat)]
seconded_counts(grid, v, g, seat) ==
    Cardinality({m \in ReceivedFrom(grid, v) :
                    m.group = g /\ seat \in m.know.seconded})

\* contains_subset of the statement knowledge
FilterSubset(a, b) == a.seconded \subseteq b.seconded /\ a.validated \subseteq b.validated

\* ReceivedManifests::import_received: "Ok", "Conflicting" or "Overflow".
import_received(grid, limit, m) ==
    LET fresh == IF HasReceived(grid, m.v, m.c)
                 THEN m.know.seconded \ ReceivedOf(grid, m.v, m.c).know.seconded
                 ELSE m.know.seconded
    IN IF HasReceived(grid, m.v, m.c)
          /\ (\/ ReceivedOf(grid, m.v, m.c).group # m.group
              \/ ReceivedOf(grid, m.v, m.c).parent # m.parent
              \/ ~FilterSubset(ReceivedOf(grid, m.v, m.c).know, m.know))
       THEN "Conflicting"
       ELSE IF \E seat \in fresh : seconded_counts(grid, m.v, m.group, seat) + 1 > limit
       THEN "Overflow"
       ELSE "Ok"

\* KnownBackedCandidate::manifest_received_from: the remote knowledge of
\* a validator only grows (it is never sent what it is known to possess).
manifest_received_from(kb, v, know) ==
    [kb EXCEPT !.mutual[v].hr = TRUE,
               !.mutual[v].r = IF kb.mutual[v].hr
                               THEN [know EXCEPT
                                       !.seconded = @ \cup kb.mutual[v].r.seconded,
                                       !.validated = @ \cup kb.mutual[v].r.validated]
                               ELSE know]

\* GridTracker::import_manifest: [grid, result]; result is "Ack" (accepted,
\* acknowledge at once), "NoAck" (accepted) or the ManifestImportError.
import_manifest(grid, c, limit, m, kind) ==
    LET kb == grid.backed[c]
        allowed == IF kind = "Full" THEN m.v \in receiving(m.group)
                   ELSE m.v \in sending(m.group) /\ kb.present
                        /\ has_sent_manifest_to(kb, m.v)
        ack == kb.present /\ m.v \in receiving(m.group)
               /\ ~has_sent_manifest_to(kb, m.v)
        kb2 == manifest_received_from(kb, m.v, m.know)
        pend == IF kb_pending_statements(kb2, m.v).some
                THEN PendingOf(m.v, m.group, c, kb_pending_statements(kb2, m.v).filter)
                ELSE {}
        rec == {x \in grid.received : ~(x.v = m.v /\ x.c = c)} \cup {m}
    IN IF ~allowed THEN [grid |-> grid, result |-> "Disallowed"]
       ELSE IF m.know.len # Len(GroupSeq(m.group))
       THEN [grid |-> grid, result |-> "Malformed"]
       ELSE IF backing_validators(m.know) < backing_threshold(m.group)
       THEN [grid |-> grid, result |-> "Insufficient"]
       ELSE IF import_received(grid, limit, m) # "Ok"
       THEN [grid |-> grid, result |-> import_received(grid, limit, m)]
       ELSE IF kb.present
       THEN [grid |-> [grid EXCEPT
                        !.received = rec,
                        !.backed[c] = kb2,
                        !.pending_manifests =
                            IF ack THEN @ \cup {[v |-> m.v, c |-> c, kind |-> "Ack"]}
                            ELSE @,
                        !.pending_statements = @ \cup pend],
             result |-> IF ack THEN "Ack" ELSE "NoAck"]
       ELSE [grid |-> [grid EXCEPT
                        !.received = rec,
                        !.unconfirmed = @ \cup {[c |-> c, v |-> m.v, group |-> m.group]}],
             result |-> "NoAck"]

\* GridTracker::add_backed_candidate: [grid, actions]; actions are the
\* (validator, ManifestKind) pairs pending for the candidate.
add_backed_candidate(grid, c, g, local) ==
    IF grid.backed[c].present
    THEN [grid |-> grid, actions |-> {}]
    ELSE LET prior == {u.v : u \in {x \in grid.unconfirmed : x.c = c /\ x.group = g}}
             kb == [present |-> TRUE, group |-> g, local |-> local,
                    mutual |-> [v \in Validators |->
                        IF v \in prior
                        THEN [NoMutual EXCEPT !.hr = TRUE,
                                              !.r = ReceivedOf(grid, v, c).know]
                        ELSE NoMutual]]
             acks == {v \in receiving(g) : has_received_manifest_from(kb, v)}
             pm == {x \in grid.pending_manifests :
                        ~(x.c = c /\ x.v \in sending(g) \cup acks)}
                   \cup {[v |-> v, c |-> c, kind |-> "Full"] : v \in sending(g) \ acks}
                   \cup {[v |-> v, c |-> c, kind |-> "Ack"] : v \in acks}
         IN [grid |-> [grid EXCEPT
                        !.backed[c] = kb,
                        !.unconfirmed = {x \in @ : x.c # c},
                        !.pending_manifests = pm],
             actions |-> {[v |-> x.v, kind |-> x.kind] : x \in {y \in pm : y.c = c}}]

\* GridTracker::manifest_sent_to
manifest_sent_to(grid, v, c, local) ==
    LET kb == grid.backed[c]
        kb2 == [kb EXCEPT !.mutual[v].hl = TRUE, !.mutual[v].l = local,
                          !.mutual[v].rc = BlankFilter(local.len)]
        pend == IF kb.present /\ kb_pending_statements(kb2, v).some
                THEN PendingOf(v, kb.group, c, kb_pending_statements(kb2, v).filter)
                ELSE {}
    IN [grid EXCEPT
          !.backed[c] = IF kb.present THEN kb2 ELSE kb,
          !.pending_statements = @ \cup pend,
          !.pending_manifests = {x \in @ : ~(x.v = v /\ x.c = c)}]

\* GridTracker::pending_manifests_for
pending_manifests_for(grid, v) ==
    {[c |-> x.c, kind |-> x.kind] : x \in {y \in grid.pending_manifests : y.v = v}}

\* GridTracker::pending_statements_for: [some, filter]
grid_pending_statements_for(grid, v, c) ==
    IF grid.backed[c].present /\ v \in Validators
    THEN kb_pending_statements(grid.backed[c], v)
    ELSE [some |-> FALSE, filter |-> NoFilter]

\* GridTracker::all_pending_statements_for
all_pending_statements_for(grid, v) ==
    {SignedStmt(x.o, x.st) : x \in {y \in grid.pending_statements : y.v = v}}

\* GridTracker::can_request
grid_can_request(grid, v, c) ==
    /\ grid.backed[c].present
    /\ has_sent_manifest_to(grid.backed[c], v)
    /\ ~has_received_manifest_from(grid.backed[c], v)

\* GridTracker::advertised_statements: [some, filter]
advertised_statements(grid, v, c) ==
    IF HasReceived(grid, v, c)
    THEN [some |-> TRUE, filter |-> ReceivedOf(grid, v, c).know]
    ELSE [some |-> FALSE, filter |-> NoFilter]

\* GridTracker::direct_statement_targets: the grid validators that have
\* exchanged manifests with the local node and lack the statement.
direct_statement_targets(grid, o, st) ==
    LET kb == grid.backed[st.c]
        g == by_validator_index(o)
    IN IF ~kb.present \/ g = NoGroup \/ g # kb.group THEN {}
       ELSE {v \in Validators :
                /\ kb.mutual[v].hl
                /\ kb.mutual[v].hr
                /\ ~FilterContains(kb.mutual[v].r, SeatOf(g, o), st.kind)}

\* GridTracker::direct_statement_providers: the grid validators that
\* advertised the statement.
direct_statement_providers(grid, o, st) ==
    LET kb == grid.backed[st.c]
        g == by_validator_index(o)
    IN IF ~kb.present \/ g = NoGroup \/ g # kb.group THEN {}
       ELSE {v \in Validators :
                /\ kb.mutual[v].hr
                /\ FilterContains(kb.mutual[v].r, SeatOf(g, o), st.kind)}

\* The second component of a provider: the validator already delivered
\* the statement (received knowledge).
validator_knows_statement(grid, v, o, st) ==
    /\ grid.backed[st.c].mutual[v].hl
    /\ FilterContains(grid.backed[st.c].mutual[v].rc,
                      SeatOf(by_validator_index(o), o), st.kind)

\* GridTracker::sent_or_received_direct_statement
sent_or_received_direct_statement(grid, o, counterparty, st, rcvd) ==
    LET kb == grid.backed[st.c]
        g == by_validator_index(o)
        seat == SeatOf(g, o)
        mk == kb.mutual[counterparty]
        mk1 == IF mk.hl /\ mk.hr
               THEN [mk EXCEPT !.r = FilterSet(@, seat, st.kind),
                               !.l = FilterSet(@, seat, st.kind)]
               ELSE mk
        mk2 == IF rcvd /\ mk.hl
               THEN [mk1 EXCEPT !.rc = FilterSet(@, seat, st.kind)]
               ELSE mk1
    IN IF g = NoGroup \/ ~kb.present \/ counterparty \notin Validators THEN grid
       ELSE [grid EXCEPT
               !.backed[st.c].mutual[counterparty] = mk2,
               !.pending_statements =
                   @ \ {[v |-> counterparty, o |-> o, st |-> st]}]

\* KnownBackedCandidate::is_pending_statement
is_pending_statement(kb, v, seat, kind) ==
    kb.mutual[v].hl /\ kb.mutual[v].hr /\ ~FilterContains(kb.mutual[v].r, seat, kind)

\* GridTracker::learned_fresh_statement
learned_fresh_statement(grid, o, st) ==
    LET kb == grid.backed[st.c]
        g == by_validator_index(o)
        seat == SeatOf(g, o)
    IN IF g = NoGroup \/ ~kb.present \/ FilterContains(kb.local, seat, st.kind)
       THEN grid
       ELSE [grid EXCEPT
               !.backed[st.c].local = FilterSet(@, seat, st.kind),
               !.pending_statements = @ \cup
                   {[v |-> v, o |-> o, st |-> st] :
                       v \in {w \in sending(g) \cup receiving(g) :
                                is_pending_statement(kb, w, seat, st.kind)}}]

(***************************************************************************)
(* The subsystem state (struct State) and the effects of one event.        *)
(***************************************************************************)

VARIABLES
    peers,              \* State.peers: PeerState of every peer
    authorities,        \* State.authorities: authority id -> peer
    implicit_view,      \* State.implicit_view: the active leaves
    per_session,        \* State.per_session: "none", "created" or "topology"
    unused_topologies,  \* State.unused_topologies: sessions with a cached topology
    keystore,           \* State.keystore: the role the node's keys give it
    relay_parents,      \* State.per_relay_parent: the keys other than RP
    per_relay_parent,   \* State.per_relay_parent[RP]
    candidates,         \* State.candidates
    request_manager,    \* State.request_manager
    response_manager,   \* State.response_manager: requests awaiting a response
    reputation,         \* reputation changes reported by the last event
    network,            \* messages handed to the network bridge by the last event
    backing,            \* statements handed to candidate backing by the last event
    result,             \* the value the last event's handler returned
    event,              \* the last event and its inputs
    respond_pc,         \* respond_task: "select", "wait" (at the cap) or "feed"
    held,               \* respond_task: the request it is about to forward
    pending_out,        \* respond_task: the sent-feedback futures [id, peer, ready]
    active_peers,       \* respond_task: the peers being served
    responder_messages, \* the channel of ResponderMessages to the orchestrator
    delivered,          \* history: statements delivered to each peer so far
    rewarded,           \* history: BENEFIT_VALID_STATEMENT_FIRST awards so far
    forwarded,          \* history: statements handed to candidate backing so far
    topologies,         \* history: the sessions whose topology arrived so far
    events              \* history: the number of events handled so far

vars == <<peers, authorities, implicit_view, per_session, unused_topologies, keystore,
          relay_parents, per_relay_parent, candidates, request_manager, response_manager, reputation, network, backing,
          result, event, respond_pc, held, pending_out, active_peers,
          responder_messages, delivered, rewarded, forwarded, topologies, events>>

\* The state of the responder task and of its channel.
responder_vars == <<respond_pc, held, pending_out, active_peers, responder_messages>>

NoPeer == "none"

\* A peer that is not in State.peers.
Disconnected == [connected |-> FALSE, view |-> {}, implicit_view |-> {}, ids |-> {}]

\* Reputation changes (Rep) of the subsystem.
COST_UNEXPECTED_STATEMENT_NOT_VALIDATOR == <<"CostMinor", "Unexpected Statement, not a validator">>
COST_UNEXPECTED_STATEMENT_VALIDATOR_NOT_FOUND == <<"CostMinor", "Unexpected Statement, validator not found">>
COST_UNEXPECTED_STATEMENT_INVALID_SENDER == <<"CostMinor", "Unexpected Statement, invalid sender">>
COST_UNEXPECTED_STATEMENT_BAD_ADVERTISE == <<"CostMinor", "Unexpected Statement, bad advertise">>
COST_UNEXPECTED_STATEMENT_CLUSTER_REJECTED == <<"CostMinor", "Unexpected Statement, cluster rejected">>
COST_UNEXPECTED_STATEMENT_NOT_IN_GROUP == <<"CostMinor", "Unexpected Statement, not in group">>
COST_UNEXPECTED_STATEMENT_MISSING_KNOWLEDGE == <<"CostMinor", "Unexpected Statement, missing knowledge for relay parent">>
COST_EXCESSIVE_SECONDED == <<"CostMinor", "Sent Excessive Seconded Statements">>
COST_DISABLED_VALIDATOR == <<"CostMinor", "Sent a statement from a disabled validator">>
COST_UNEXPECTED_MANIFEST_MISSING_KNOWLEDGE == <<"CostMinor", "Unexpected Manifest, missing knowledge for relay parent">>
COST_UNEXPECTED_MANIFEST_DISALLOWED == <<"CostMinor", "Unexpected Manifest, Peer Disallowed">>
COST_UNEXPECTED_MANIFEST_PEER_UNKNOWN == <<"CostMinor", "Unexpected Manifest, Peer Unknown">>
COST_CONFLICTING_MANIFEST == <<"CostMajor", "Manifest conflicts with previous">>
COST_INSUFFICIENT_MANIFEST == <<"CostMajor", "Manifest statements insufficient to back candidate">>
COST_MALFORMED_MANIFEST == <<"CostMajor", "Manifest is malformed">>
COST_UNEXPECTED_ACKNOWLEDGEMENT_UNKNOWN_CANDIDATE == <<"CostMinor", "Unexpected acknowledgement, unknown candidate">>
COST_INVALID_SIGNATURE == <<"CostMajor", "Invalid Statement Signature">>
COST_INVALID_RESPONSE == <<"CostMajor", "Invalid Candidate Response">>
COST_UNREQUESTED_RESPONSE_STATEMENT == <<"CostMajor", "Un-requested Statement In Response">>
COST_INACCURATE_ADVERTISEMENT == <<"CostMajor", "Peer advertised a candidate inaccurately">>
COST_INVALID_REQUEST_BITFIELD_SIZE == <<"CostMajor", "Attested candidate request bitfields have wrong size">>
COST_UNEXPECTED_REQUEST == <<"CostMajor", "Unexpected attested candidate request">>
BENEFIT_VALID_RESPONSE == <<"BenefitMajor", "Peer Answered Candidate Request">>
BENEFIT_VALID_STATEMENT == <<"BenefitMajor", "Peer provided a valid statement">>
BENEFIT_VALID_STATEMENT_FIRST == <<"BenefitMajorFirst", "Peer was the first to provide a given valid statement">>

\* The mutable state a handler works on, as one record.
State ==
    [peers |-> peers, authorities |-> authorities,
     implicit_view |-> implicit_view, per_session |-> per_session,
     unused_topologies |-> unused_topologies, keystore |-> keystore,
     relay_parents |-> relay_parents,
     grid_view |-> per_session[SessionOfRP] = "topology",
     prs |-> per_relay_parent, candidates |-> candidates,
     request_manager |-> request_manager, response_manager |-> response_manager,
     reputation |-> <<>>, network |-> <<>>, backing |-> <<>>, result |-> "Ok"]

\* The handler's state with the sessions ps; grid_view is the grid view of
\* the session of RP, which the statement handlers read.
WithSessions(S, ps) ==
    [S EXCEPT !.per_session = ps, !.grid_view = (ps[SessionOfRP] = "topology")]

\* handle_network_update, NetworkBridgeEvent::NewGossipTopology
new_gossip_topology(S, s) ==
    IF S.per_session[s] # "none"
    THEN WithSessions(S, [S.per_session EXCEPT ![s] = "topology"])
    ELSE [S EXCEPT !.unused_topologies = @ \cup {s}]

\* modify_reputation
modify_reputation(S, p, rep) ==
    [S EXCEPT !.reputation = Append(@, [peer |-> p, rep |-> rep])]

\* A set as a sequence in a fixed order.
RECURSIVE SetToSeq(_)
SetToSeq(set) ==
    IF set = {} THEN <<>>
    ELSE LET x == CHOOSE y \in set : TRUE IN <<x>> \o SetToSeq(set \ {x})

\* Statements in sending order: Seconded before Valid.
SecondedFirst(stmts) ==
    SetToSeq({x \in stmts : x.st.kind = "Seconded"})
        \o SetToSeq({x \in stmts : x.st.kind = "Valid"})

\* protocol_v3::StatementDistributionMessage::Statement to peer p
StatementMsg(p, x) == [type |-> "Statement", to |-> p, rp |-> RP, v |-> x.v, st |-> x.st]

\* find_validator_ids over the discovery ids of a peer
find_validator_ids(S, p) ==
    {authority_lookup(a) : a \in S.peers[p].ids} \cap Validators

\* PeerState::is_authority
is_authority(S, p, a) == a \in S.peers[p].ids

\* PeerState::knows_relay_parent
knows_relay_parent(S, p, rp) ==
    rp \in S.peers[p].implicit_view \/ rp \in S.peers[p].view

\* connected_validator_peer
connected_validator_peer(S, v) ==
    IF v \in Validators THEN S.authorities[discovery_keys(v)] ELSE NoPeer

\* PerRelayParentState::disabled_bitmask as a set of seats
disabled_bitmask(S, g) ==
    {i \in 1..Len(GroupSeq(g)) : GroupSeq(g)[i] \in S.prs.disabled}

\* PerRelayParentState.assignments_per_group[g] as a sequence of paras
assignments_per_group(S, g) ==
    IF g = 0 THEN [i \in 1..S.prs.assignments |-> ParaA]
    ELSE IF g = 1 THEN <<ParaB>>
    ELSE <<ParaC>>

\* PerRelayParentState.groups_per_para
groups_per_para(para) ==
    IF para = ParaA THEN {0}
    ELSE IF para = ParaB THEN {1}
    ELSE IF para = ParaC THEN {2}
    ELSE {}

(***************************************************************************)
(* Sending statements: circulation and catch-up.                           *)
(***************************************************************************)

\* A validator counts as reachable as soon as a peer is known for it.
ReachableByAnyView(S, v) == connected_validator_peer(S, v) # NoPeer

\* The validator has a connected peer that knows the relay parent RP.
Reachable(S, v) ==
    /\ connected_validator_peer(S, v) # NoPeer
    /\ knows_relay_parent(S, connected_validator_peer(S, v), RP)

RECURSIVE NoteSentTargets(_, _, _, _)
NoteSentTargets(ct, targets, o, st) ==
    IF targets = {} THEN ct
    ELSE LET t == CHOOSE y \in targets : TRUE
         IN NoteSentTargets(note_sent(ct, t, o, st), targets \ {t}, o, st)

RECURSIVE GridSentTargets(_, _, _, _)
GridSentTargets(grid, targets, o, st) ==
    IF targets = {} THEN grid
    ELSE LET t == CHOOSE y \in targets : TRUE
         IN GridSentTargets(sent_or_received_direct_statement(grid, o, t, st, FALSE),
                            targets \ {t}, o, st)

\* CirculateClusterTargets without the can_send check of the tracker.
CirculateClusterTargetsUnchecked(S, o, st) ==
    IF /\ S.prs.local_validator = "active"
       /\ by_validator_index(LocalIndex) = by_validator_index(o)
       /\ is_confirmed(S.candidates, st.c)
    THEN {v \in S.prs.cluster_tracker.validators :
            /\ v # LocalIndex
            /\ Reachable(S, v)}
    ELSE {}

\* The cluster members circulate_statement sends the statement to.
CirculateClusterTargets(S, o, st) ==
    IF /\ S.prs.local_validator = "active"
       /\ by_validator_index(LocalIndex) = by_validator_index(o)
       /\ is_confirmed(S.candidates, st.c)
    THEN {v \in S.prs.cluster_tracker.validators :
            /\ can_send(S.prs.cluster_tracker, v, o, st)
            /\ v # LocalIndex
            /\ Reachable(S, v)}
    ELSE {}

\* The grid validators circulate_statement sends the statement to.
CirculateGridTargets(S, o, st) ==
    {v \in direct_statement_targets(S.prs.grid_tracker, o, st) :
        /\ ~(/\ S.prs.local_validator = "active"
              /\ by_validator_index(LocalIndex) = by_validator_index(o)
              /\ v \in S.prs.cluster_tracker.validators)
        /\ Reachable(S, v)}

\* circulate_statement
circulate_statement(S, o, st) ==
    IF S.prs.local_validator = "none" THEN S
    ELSE LET ctargets == CirculateClusterTargets(S, o, st)
             gtargets == CirculateGridTargets(S, o, st)
             msgs == [i \in 1..Cardinality(ctargets \cup gtargets) |->
                        StatementMsg(
                            connected_validator_peer(S, SetToSeq(ctargets \cup gtargets)[i]),
                            SignedStmt(o, st))]
         IN [S EXCEPT
               !.prs.cluster_tracker = NoteSentTargets(@, ctargets, o, st),
               !.prs.grid_tracker = GridSentTargets(@, gtargets, o, st),
               !.network = @ \o msgs]

\* ClusterCatchUp without the check that the candidate is confirmed.
ClusterCatchUpUnconfirmed(S, v) ==
    {x \in cluster_pending_statements_for(S.prs.cluster_tracker, v) :
        validator_statement(S.prs.statement_store, x.v, x.st)}

\* The pending cluster statements that catch-up sends to validator v.
ClusterCatchUp(S, v) ==
    {x \in cluster_pending_statements_for(S.prs.cluster_tracker, v) :
        /\ is_confirmed(S.candidates, x.st.c)
        /\ validator_statement(S.prs.statement_store, x.v, x.st)}

RECURSIVE NoteSentStatements(_, _, _)
NoteSentStatements(ct, v, stmts) ==
    IF stmts = {} THEN ct
    ELSE LET x == CHOOSE y \in stmts : TRUE
         IN NoteSentStatements(note_sent(ct, v, x.v, x.st), v, stmts \ {x})

\* send_pending_cluster_statements
send_pending_cluster_statements(S, p, v) ==
    [S EXCEPT
       !.prs.cluster_tracker = NoteSentStatements(@, v, ClusterCatchUp(S, v)),
       !.network = @ \o [i \in 1..Cardinality(ClusterCatchUp(S, v)) |->
                            StatementMsg(p, SecondedFirst(ClusterCatchUp(S, v))[i])]]

RECURSIVE GridSentStatements(_, _, _)
GridSentStatements(grid, v, stmts) ==
    IF stmts = {} THEN grid
    ELSE LET x == CHOOSE y \in stmts : TRUE
         IN GridSentStatements(
                sent_or_received_direct_statement(grid, x.v, v, x.st, FALSE),
                v, stmts \ {x})

\* PostAckStatements sending every stored statement of the group,
\* whatever the recipient knows.
PostAckAllStatements(S, recipient, g, c) ==
    IF grid_pending_statements_for(S.prs.grid_tracker, recipient, c).some
    THEN group_statements_set(S.prs.statement_store, g, c,
            FullFilter(Len(GroupSeq(g))))
    ELSE {}

\* post_acknowledgement_statement_messages: the stored statements of the
\* group that the recipient lacks are sent and noted as sent in the grid.
PostAckStatements(S, recipient, g, c) ==
    IF grid_pending_statements_for(S.prs.grid_tracker, recipient, c).some
    THEN group_statements_set(S.prs.statement_store, g, c,
            grid_pending_statements_for(S.prs.grid_tracker, recipient, c).filter)
    ELSE {}

post_acknowledgement_statement_messages(S, p, recipient, g, c) ==
    [S EXCEPT
       !.prs.grid_tracker = GridSentStatements(@, recipient, PostAckStatements(S, recipient, g, c)),
       !.network = @ \o [i \in 1..Cardinality(PostAckStatements(S, recipient, g, c)) |->
                            StatementMsg(p, SecondedFirst(PostAckStatements(S, recipient, g, c))[i])]]

\* protocol_v2::BackedCandidateManifest to peer p
ManifestMsg(p, c, g, know) ==
    [type |-> "Manifest", to |-> p, rp |-> RP, c |-> c, group |-> g,
     para |-> Receipt(c).para, parent |-> Receipt(c).parent, know |-> know]

\* protocol_v2::BackedCandidateAcknowledgement to peer p
AckMsg(p, c, know) == [type |-> "Ack", to |-> p, c |-> c, know |-> know]

\* acknowledgement_and_statement_messages
acknowledgement_and_statement_messages(S, p, v, g, c, local) ==
    IF S.prs.local_validator = "none" THEN S
    ELSE post_acknowledgement_statement_messages(
            [S EXCEPT !.network = Append(@, AckMsg(p, c, local)),
                      !.prs.grid_tracker = manifest_sent_to(@, v, c, local)],
            p, v, g, c)

\* One pending manifest of send_pending_grid_messages.
SendPendingManifest(S, p, v, pm) ==
    IF ~is_confirmed(S.candidates, pm.c) THEN S
    ELSE LET g == S.candidates[pm.c].group
             local == local_knowledge_filter(g, pm.c, S.prs.statement_store)
         IN IF pm.kind = "Full"
            THEN [S EXCEPT
                    !.prs.grid_tracker = manifest_sent_to(@, v, pm.c, local),
                    !.network = Append(@, ManifestMsg(p, pm.c, g, local))]
            ELSE acknowledgement_and_statement_messages(S, p, v, g, pm.c, local)

RECURSIVE SendPendingManifests(_, _, _, _)
SendPendingManifests(S, p, v, pms) ==
    IF pms = {} THEN S
    ELSE LET pm == CHOOSE y \in pms : TRUE
         IN SendPendingManifests(SendPendingManifest(S, p, v, pm), p, v, pms \ {pm})

\* The remaining pending grid statements that catch-up sends to validator v.
GridCatchUp(S, v) ==
    {x \in all_pending_statements_for(S.prs.grid_tracker, v) :
        validator_statement(S.prs.statement_store, x.v, x.st)}

\* send_pending_grid_messages
send_pending_grid_messages(S, p, v) ==
    IF S.prs.local_validator = "none" THEN S
    ELSE LET S1 == SendPendingManifests(S, p, v,
                        pending_manifests_for(S.prs.grid_tracker, v))
         IN [S1 EXCEPT
               !.prs.grid_tracker = GridSentStatements(@, v, GridCatchUp(S1, v)),
               !.network = @ \o [i \in 1..Cardinality(GridCatchUp(S1, v)) |->
                                    StatementMsg(p, SecondedFirst(GridCatchUp(S1, v))[i])]]

\* The body of send_peer_messages_for_relay_parent for one validator id.
SendPeerMessagesAs(S, p, v) ==
    send_pending_grid_messages(
        IF S.prs.local_validator = "active"
        THEN send_pending_cluster_statements(S, p, v)
        ELSE S,
        p, v)

RECURSIVE SendPeerMessagesLoop(_, _, _)
SendPeerMessagesLoop(S, p, vs) ==
    IF vs = {} THEN S
    ELSE LET v == CHOOSE y \in vs : TRUE
         IN SendPeerMessagesLoop(SendPeerMessagesAs(S, p, v), p, vs \ {v})

\* send_peer_messages_for_relay_parent
send_peer_messages_for_relay_parent(S, p, rp) ==
    IF ~S.peers[p].connected \/ rp # RP \/ ~S.prs.present THEN S
    ELSE SendPeerMessagesLoop(S, p, find_validator_ids(S, p))

\* ImplicitView::known_allowed_relay_parents_under, over the leaves of a view.
known_allowed_relay_parents_under(S, view) ==
    UNION {AllowedUnder(l) : l \in view \cap S.implicit_view}

\* handle_peer_view_update with PeerState::update_view
handle_peer_view_update(S, p, new_view) ==
    IF ~S.peers[p].connected THEN S
    ELSE LET next_implicit == known_allowed_relay_parents_under(S, new_view)
             fresh == next_implicit \ S.peers[p].implicit_view
             S1 == [S EXCEPT !.peers[p].view = new_view,
                             !.peers[p].implicit_view = next_implicit]
         IN IF RP \in fresh THEN send_peer_messages_for_relay_parent(S1, p, RP)
            ELSE S1

\* handle_network_update, NetworkBridgeEvent::PeerConnected
peer_connected(S, p, ids) ==
    LET fresh == {a \in ids : S.authorities[a] = NoPeer}
    IN [S EXCEPT
          !.authorities = [a \in AuthorityIds |->
                              IF a \in fresh THEN p ELSE S.authorities[a]],
          !.peers[p] = [connected |-> TRUE, view |-> {}, implicit_view |-> {},
                        ids |-> fresh]]

\* PeerDisconnected removing the PeerState only.
peer_disconnected_keeping_authorities(S, p) ==
    IF ~S.peers[p].connected THEN S
    ELSE [S EXCEPT !.peers[p] = Disconnected]

\* handle_network_update, NetworkBridgeEvent::PeerDisconnected
peer_disconnected(S, p) ==
    IF ~S.peers[p].connected THEN S
    ELSE [S EXCEPT
            !.authorities = [a \in AuthorityIds |->
                                IF a \in S.peers[p].ids THEN NoPeer
                                ELSE S.authorities[a]],
            !.peers[p] = Disconnected]

(***************************************************************************)
(* Confirmation, importability and the backing subsystem.                  *)
(***************************************************************************)

\* StatementStore::fresh_statements_for_backing
fresh_statements_for_backing(store, g, c) ==
    {x \in store.known : x.st.c = c /\ x.v \in GroupSet(g)} \ store.backing

\* send_backing_fresh_statements handing over every stored statement of the
\* group about the candidate, fresh for backing or not.
send_backing_all_statements(S, c, g) ==
    LET all == {x \in S.prs.statement_store.known : x.st.c = c /\ x.v \in GroupSet(g)}
    IN [S EXCEPT !.backing = @ \o SecondedFirst(all),
                 !.prs.statement_store.backing = @ \cup all]

\* send_backing_fresh_statements with StatementStore::note_known_by_backing
send_backing_fresh_statements(S, c, g) ==
    LET fresh == fresh_statements_for_backing(S.prs.statement_store, g, c)
    IN [S EXCEPT !.backing = @ \o SecondedFirst(fresh),
                 !.prs.statement_store.backing = @ \cup fresh]

\* Candidates::frontier_hypotheticals(Some((parent, para)))
frontier_hypotheticals(cands, parent, para) ==
    {c \in CandidateHashes :
        \/ /\ cands[c].state = "Confirmed"
           /\ Receipt(c).parent = parent /\ Receipt(c).para = para
        \/ /\ cands[c].state = "Unconfirmed"
           /\ \E cl \in cands[c].claims :
                 cl.has_parent /\ cl.parent = parent /\ cl.para = para}

\* The active leaves whose fragment chains can hold the candidate c: the
\* membership prospective parachains answers for a member.
Membership(S, c) ==
    {l \in S.implicit_view : Receipt(c).relay_parent \in AllowedUnder(l)}

\* One hypothetical of fragment_chain_update_inner with the membership
\* prospective parachains answered for it.
FragmentChainUpdateUnder(S, c, membership) ==
    IF membership = {} THEN S
    ELSE LET S1 == [S EXCEPT !.candidates = note_importable_under(@, c, membership)]
         IN IF /\ is_confirmed(S1.candidates, c)
               /\ S1.prs.present
               /\ Receipt(c).relay_parent = RP
               /\ S1.candidates[c].group \in groups_per_para(Receipt(c).para)
            THEN send_backing_fresh_statements(S1, c, S1.candidates[c].group)
            ELSE S1

\* One hypothetical of fragment_chain_update_inner; member tells whether
\* prospective parachains answered a non-empty membership.
FragmentChainUpdateOne(S, c, member) ==
    FragmentChainUpdateUnder(S, c, IF member THEN Membership(S, c) ELSE {})

RECURSIVE fragment_chain_update_inner(_, _, _)
fragment_chain_update_inner(S, hypotheticals, member) ==
    IF hypotheticals = {} THEN S
    ELSE LET c == CHOOSE y \in hypotheticals : TRUE
         IN fragment_chain_update_inner(FragmentChainUpdateOne(S, c, member),
                                        hypotheticals \ {c}, member)

RECURSIVE CirculateAll(_, _)
CirculateAll(S, stmts) ==
    IF stmts = <<>> THEN S
    ELSE CirculateAll(circulate_statement(S, Head(stmts).v, Head(stmts).st), Tail(stmts))

\* send_cluster_candidate_statements
send_cluster_candidate_statements(S, c) ==
    IF ~S.prs.present \/ S.prs.local_validator # "active" THEN S
    ELSE CirculateAll(S,
            SecondedFirst(group_statements_set(S.prs.statement_store,
                by_validator_index(LocalIndex), c,
                FullFilter(Len(GroupSeq(by_validator_index(LocalIndex)))))))

RECURSIVE ChargeAll(_, _, _)
ChargeAll(S, ps, rep) ==
    IF ps = {} THEN S
    ELSE LET q == CHOOSE y \in ps : TRUE
         IN ChargeAll(modify_reputation(S, q, rep), ps \ {q}, rep)

\* ChargeIncorrect charging every advertiser of the reckoning.
ChargeEveryAdvertiser(S, post) ==
    ChargeAll(S, post.incorrect \cup post.correct, COST_INACCURATE_ADVERTISEMENT)

\* The reputation loop of apply_post_confirmation over reckoning.incorrect.
ChargeIncorrect(S, post) == ChargeAll(S, post.incorrect, COST_INACCURATE_ADVERTISEMENT)

\* apply_post_confirmation leaving the requests for the candidate in place.
apply_post_confirmation_keeping_requests(S, c, post, member) ==
    LET S1 == ChargeIncorrect(S, post)
        S3 == send_cluster_candidate_statements(S1, c)
    IN fragment_chain_update_inner(S3, {c}, member)

\* apply_post_confirmation
apply_post_confirmation(S, c, post, member) ==
    LET S1 == ChargeIncorrect(S, post)
        S2 == [S1 EXCEPT !.request_manager = remove_for(@, c)]
        S3 == send_cluster_candidate_statements(S2, c)
    IN fragment_chain_update_inner(S3, {c}, member)

(***************************************************************************)
(* Statements: local shares and incoming statements.                       *)
(***************************************************************************)

InvalidShare(S) == [S EXCEPT !.result = "InvalidShare"]

\* ShareImport applying the post-confirmation effects of a Seconded
\* statement whether or not confirm_candidate returned a PostConfirmation.
ShareImportReconfirming(S, v, st, member) ==
    LET conf == IF st.kind = "Seconded"
                THEN confirm_candidate(S.candidates, st.c, by_validator_index(LocalIndex))
                ELSE [cands |-> S.candidates, some |-> FALSE,
                      correct |-> {}, incorrect |-> {}]
        S1 == [S EXCEPT !.candidates = conf.cands]
        ins == StoreInsert(S.prs.statement_store, v, st, TRUE)
        S2 == [S1 EXCEPT
                 !.prs.statement_store = ins.store,
                 !.prs.cluster_tracker = note_issued(@, LocalIndex, st),
                 !.prs.grid_tracker =
                     IF S.grid_view THEN learned_fresh_statement(@, LocalIndex, st)
                     ELSE @]
        S3 == circulate_statement(S2, v, st)
    IN IF ins.result # "fresh"
       THEN InvalidShare([S1 EXCEPT !.prs.statement_store = ins.store])
       ELSE IF st.kind = "Seconded"
       THEN apply_post_confirmation(S3, st.c, conf, member)
       ELSE S3

\* share_local_statement, after the sanity checks: confirmation, import
\* into the store, the trackers, circulation and post-confirmation.
ShareImport(S, v, st, member) ==
    LET conf == IF st.kind = "Seconded"
                THEN confirm_candidate(S.candidates, st.c, by_validator_index(LocalIndex))
                ELSE [cands |-> S.candidates, some |-> FALSE,
                      correct |-> {}, incorrect |-> {}]
        S1 == [S EXCEPT !.candidates = conf.cands]
        ins == StoreInsert(S.prs.statement_store, v, st, TRUE)
        S2 == [S1 EXCEPT
                 !.prs.statement_store = ins.store,
                 !.prs.cluster_tracker = note_issued(@, LocalIndex, st),
                 !.prs.grid_tracker =
                     IF S.grid_view THEN learned_fresh_statement(@, LocalIndex, st)
                     ELSE @]
        S3 == circulate_statement(S2, v, st)
    IN IF ins.result # "fresh"
       THEN InvalidShare([S1 EXCEPT !.prs.statement_store = ins.store])
       ELSE IF conf.some THEN apply_post_confirmation(S3, st.c, conf, member)
       ELSE S3

\* share_local_statement confirming the candidate of a Seconded statement
\* before its sanity checks.
share_local_statement_confirming_first(S, rp, v, st, member) ==
    LET S1 == IF st.kind = "Seconded"
              THEN [S EXCEPT !.candidates =
                       confirm_candidate(@, st.c, by_validator_index(LocalIndex)).cands]
              ELSE S
    IN IF rp # RP \/ ~S.prs.present THEN InvalidShare(S1)
       ELSE IF S.prs.local_validator # "active" THEN InvalidShare(S1)
       ELSE IF st.kind = "Valid" /\ ~is_confirmed(S.candidates, st.c) THEN InvalidShare(S1)
       ELSE IF LocalIndex # v THEN InvalidShare(S1)
       ELSE IF /\ st.kind = "Seconded"
               /\ seconded_count(S.prs.statement_store, LocalIndex)
                     >= Len(assignments_per_group(S, by_validator_index(LocalIndex)))
       THEN InvalidShare(S1)
       ELSE IF \/ Receipt(st.c).para \notin
                    SeqSet(assignments_per_group(S, by_validator_index(LocalIndex)))
               \/ rp # Receipt(st.c).relay_parent
       THEN InvalidShare(S1)
       ELSE ShareImport(S, v, st, member)

\* share_local_statement
share_local_statement(S, rp, v, st, member) ==
    IF rp # RP \/ ~S.prs.present THEN InvalidShare(S)
    ELSE IF S.prs.local_validator # "active" THEN InvalidShare(S)
    ELSE IF st.kind = "Valid" /\ ~is_confirmed(S.candidates, st.c) THEN InvalidShare(S)
    ELSE IF LocalIndex # v THEN InvalidShare(S)
    ELSE IF /\ st.kind = "Seconded"
            /\ seconded_count(S.prs.statement_store, LocalIndex)
                  >= Len(assignments_per_group(S, by_validator_index(LocalIndex)))
    THEN InvalidShare(S)
    ELSE IF \/ Receipt(st.c).para \notin
                 SeqSet(assignments_per_group(S, by_validator_index(LocalIndex)))
            \/ rp # Receipt(st.c).relay_parent
    THEN InvalidShare(S)
    ELSE ShareImport(S, v, st, member)

\* A handle_cluster_statement that notes the statement as received before
\* the cluster's checks.
handle_cluster_statement_noting_first(ct, sender, o, st, sig) ==
    LET acc == can_receive(ct, sender, o, st)
        noted == note_received(ct, sender, o, st)
    IN IF acc = "ExcessiveSeconded"
       THEN [ct |-> noted, verdict |-> "cost", rep |-> COST_EXCESSIVE_SECONDED]
       ELSE IF acc \in {"CandidateUnknown", "Duplicate"}
       THEN [ct |-> noted, verdict |-> "cost",
             rep |-> COST_UNEXPECTED_STATEMENT_CLUSTER_REJECTED]
       ELSE IF acc = "NotInGroup"
       THEN [ct |-> noted, verdict |-> "cost", rep |-> COST_UNEXPECTED_STATEMENT_NOT_IN_GROUP]
       ELSE IF ~sig
       THEN [ct |-> ct, verdict |-> "cost", rep |-> COST_INVALID_SIGNATURE]
       ELSE [ct |-> noted,
             verdict |-> IF acc = "Ok" THEN "import" ELSE "drop",
             rep |-> BENEFIT_VALID_STATEMENT]

\* handle_cluster_statement: [ct, verdict]; verdict is "import", "drop"
\* (accepted with prejudice) or the reputation cost of the rejection.
handle_cluster_statement(ct, sender, o, st, sig) ==
    LET acc == can_receive(ct, sender, o, st)
    IN IF acc = "ExcessiveSeconded"
       THEN [ct |-> ct, verdict |-> "cost", rep |-> COST_EXCESSIVE_SECONDED]
       ELSE IF acc \in {"CandidateUnknown", "Duplicate"}
       THEN [ct |-> ct, verdict |-> "cost", rep |-> COST_UNEXPECTED_STATEMENT_CLUSTER_REJECTED]
       ELSE IF acc = "NotInGroup"
       THEN [ct |-> ct, verdict |-> "cost", rep |-> COST_UNEXPECTED_STATEMENT_NOT_IN_GROUP]
       ELSE IF ~sig
       THEN [ct |-> ct, verdict |-> "cost", rep |-> COST_INVALID_SIGNATURE]
       ELSE [ct |-> note_received(ct, sender, o, st),
             verdict |-> IF acc = "Ok" THEN "import" ELSE "drop",
             rep |-> BENEFIT_VALID_STATEMENT]

\* A handle_grid_statement that records the statement before it checks the
\* signature.
handle_grid_statement_recording_first(grid, sender, o, st, sig) ==
    [grid |-> sent_or_received_direct_statement(grid, o, sender, st, TRUE),
     verdict |-> IF sig THEN "import" ELSE "cost",
     rep |-> IF sig THEN BENEFIT_VALID_STATEMENT ELSE COST_INVALID_SIGNATURE]

\* handle_grid_statement: [grid, verdict, rep]
handle_grid_statement(grid, sender, o, st, sig) ==
    IF ~sig
    THEN [grid |-> grid, verdict |-> "cost", rep |-> COST_INVALID_SIGNATURE]
    ELSE [grid |-> sent_or_received_direct_statement(grid, o, sender, st, TRUE),
          verdict |-> "import", rep |-> BENEFIT_VALID_STATEMENT]

\* PerSessionState.local_validator of session s: Active(index) when the
\* keystore holds the key of a validator of the session, Inactive once
\* supply_topology got a topology that names the local node, else None.
session_local_validator(S, s) ==
    IF S.per_session[s] = "none" THEN "none"
    ELSE IF S.keystore = "active" THEN "active"
    ELSE IF S.keystore = "inactive" /\ S.per_session[s] = "topology" THEN "inactive"
    ELSE "none"

\* PerSessionState::is_not_validator
is_not_validator(S) ==
    S.grid_view /\ session_local_validator(S, SessionOfRP) = "none"

\* The cluster validators that may send statements of the originator and
\* whose authority id the peer controls.
ClusterSenders(S, p, o) ==
    IF S.prs.local_validator = "active"
    THEN {v \in senders_for_originator(S.prs.cluster_tracker, o) :
            is_authority(S, p, discovery_keys(v))}
    ELSE {}

\* GridSenders without the filter on the peer's authority ids.
GridSendersOfAnyPeer(S, p, o, st) ==
    direct_statement_providers(S.prs.grid_tracker, o, st)

\* The grid validators that advertised the statement and whose authority
\* id the peer controls.
GridSenders(S, p, o, st) ==
    {v \in direct_statement_providers(S.prs.grid_tracker, o, st) :
        is_authority(S, p, discovery_keys(v))}

\* ImportStatement with the result of the insert ignored: every accepted
\* statement is treated as fresh.
ImportStatementAsFresh(S, p, o, st) ==
    LET ins == insert_unconfirmed(S.candidates,
                    Claim(p, RP, by_validator_index(o), FALSE, "", ""), st.c)
        S1 == [S EXCEPT !.candidates = ins.cands]
        id == CandidateIdentifier(RP, st.c, by_validator_index(o))
        S2 == IF is_confirmed(S1.candidates, st.c) THEN S1
              ELSE [S1 EXCEPT !.request_manager =
                        set_cluster_priority(get_or_insert_add_peer(@, id, p), id)]
        put == StoreInsert(S2.prs.statement_store, o, st, FALSE)
        S3 == [S2 EXCEPT !.prs.statement_store = put.store]
        S4 == modify_reputation(S3, p, BENEFIT_VALID_STATEMENT_FIRST)
        S5 == IF S.grid_view
              THEN [S4 EXCEPT !.prs.grid_tracker = learned_fresh_statement(@, o, st)]
              ELSE S4
        S6 == IF is_importable(S5.candidates, st.c)
              THEN send_backing_fresh_statements(S5, st.c, by_validator_index(o))
              ELSE S5
    IN IF ~ins.ok
       THEN modify_reputation(S, p, COST_UNEXPECTED_STATEMENT_BAD_ADVERTISE)
       ELSE IF put.result = "ValidatorUnknown" THEN S2
       ELSE circulate_statement(S6, o, st)

\* handle_incoming_statement after the statement was accepted from the
\* cluster or the grid: the candidate entry, the request, the store, the
\* reward and the circulation.
ImportStatement(S, p, o, st) ==
    LET ins == insert_unconfirmed(S.candidates,
                    Claim(p, RP, by_validator_index(o), FALSE, "", ""), st.c)
        S1 == [S EXCEPT !.candidates = ins.cands]
        id == CandidateIdentifier(RP, st.c, by_validator_index(o))
        S2 == IF is_confirmed(S1.candidates, st.c) THEN S1
              ELSE [S1 EXCEPT !.request_manager =
                        set_cluster_priority(get_or_insert_add_peer(@, id, p), id)]
        put == StoreInsert(S2.prs.statement_store, o, st, FALSE)
        S3 == [S2 EXCEPT !.prs.statement_store = put.store]
        S4 == modify_reputation(S3, p, BENEFIT_VALID_STATEMENT_FIRST)
        S5 == IF S.grid_view
              THEN [S4 EXCEPT !.prs.grid_tracker = learned_fresh_statement(@, o, st)]
              ELSE S4
        S6 == IF is_importable(S5.candidates, st.c)
              THEN send_backing_fresh_statements(S5, st.c, by_validator_index(o))
              ELSE S5
    IN IF ~ins.ok
       THEN modify_reputation(S, p, COST_UNEXPECTED_STATEMENT_BAD_ADVERTISE)
       ELSE IF put.result = "ValidatorUnknown" THEN S2
       ELSE IF put.result = "fresh" THEN circulate_statement(S6, o, st)
       ELSE modify_reputation(S3, p, BENEFIT_VALID_STATEMENT)

\* An acceptance through the cluster that imports whatever is signed.
AcceptFromClusterImportingAll(S, p, o, st, sig) ==
    LET sender == CHOOSE v \in ClusterSenders(S, p, o) : TRUE
        r == handle_cluster_statement(S.prs.cluster_tracker, sender, o, st, sig)
        S1 == [S EXCEPT !.prs.cluster_tracker = r.ct]
    IN IF r.verdict = "cost" THEN modify_reputation(S1, p, r.rep)
       ELSE ImportStatement(S1, p, o, st)

\* handle_incoming_statement, the acceptance through the cluster.
AcceptFromCluster(S, p, o, st, sig) ==
    LET sender == CHOOSE v \in ClusterSenders(S, p, o) : TRUE
        r == handle_cluster_statement(S.prs.cluster_tracker, sender, o, st, sig)
        S1 == [S EXCEPT !.prs.cluster_tracker = r.ct]
    IN IF r.verdict = "cost" THEN modify_reputation(S1, p, r.rep)
       ELSE IF r.verdict = "drop" THEN S1
       ELSE ImportStatement(S1, p, o, st)

\* handle_incoming_statement, the acceptance through the grid.
AcceptFromGrid(S, p, o, st, sig) ==
    LET sender == CHOOSE v \in GridSenders(S, p, o, st) : TRUE
        r == handle_grid_statement(S.prs.grid_tracker, sender, o, st, sig)
        S1 == [S EXCEPT !.prs.grid_tracker = r.grid]
    IN IF validator_knows_statement(S.prs.grid_tracker, sender, o, st)
       THEN modify_reputation(S, p, BENEFIT_VALID_STATEMENT)
       ELSE IF r.verdict = "cost" THEN modify_reputation(S1, p, r.rep)
       ELSE ImportStatement(S1, p, o, st)

\* A handle_incoming_statement without the check of the disabled validators.
handle_incoming_statement_of_anyone(S, p, rp, o, st, sig) ==
    IF ~S.peers[p].connected THEN S
    ELSE IF rp # RP \/ ~S.prs.present
    THEN modify_reputation(S, p, COST_UNEXPECTED_STATEMENT_MISSING_KNOWLEDGE)
    ELSE IF S.prs.local_validator = "none"
    THEN IF is_not_validator(S)
         THEN modify_reputation(S, p, COST_UNEXPECTED_STATEMENT_NOT_VALIDATOR)
         ELSE S
    ELSE IF by_validator_index(o) = NoGroup
    THEN modify_reputation(S, p, COST_UNEXPECTED_STATEMENT_VALIDATOR_NOT_FOUND)
    ELSE IF ClusterSenders(S, p, o) # {} THEN AcceptFromCluster(S, p, o, st, sig)
    ELSE IF GridSenders(S, p, o, st) # {} THEN AcceptFromGrid(S, p, o, st, sig)
    ELSE modify_reputation(S, p, COST_UNEXPECTED_STATEMENT_INVALID_SENDER)

\* handle_incoming_statement
handle_incoming_statement(S, p, rp, o, st, sig) ==
    IF ~S.peers[p].connected THEN S
    ELSE IF rp # RP \/ ~S.prs.present
    THEN modify_reputation(S, p, COST_UNEXPECTED_STATEMENT_MISSING_KNOWLEDGE)
    ELSE IF o \in S.prs.disabled
    THEN modify_reputation(S, p, COST_DISABLED_VALIDATOR)
    ELSE IF S.prs.local_validator = "none"
    THEN IF is_not_validator(S)
         THEN modify_reputation(S, p, COST_UNEXPECTED_STATEMENT_NOT_VALIDATOR)
         ELSE S
    ELSE IF by_validator_index(o) = NoGroup
    THEN modify_reputation(S, p, COST_UNEXPECTED_STATEMENT_VALIDATOR_NOT_FOUND)
    ELSE IF ClusterSenders(S, p, o) # {} THEN AcceptFromCluster(S, p, o, st, sig)
    ELSE IF GridSenders(S, p, o, st) # {} THEN AcceptFromGrid(S, p, o, st, sig)
    ELSE modify_reputation(S, p, COST_UNEXPECTED_STATEMENT_INVALID_SENDER)

(***************************************************************************)
(* Manifests and acknowledgements.                                         *)
(***************************************************************************)

\* MaskDisabled leaving the statement knowledge as the peer sent it.
MaskNothing(S, g, know) == know

\* StatementFilter::mask_seconded and mask_valid with the disabled bitmask.
MaskDisabled(S, g, know) ==
    [know EXCEPT !.seconded = @ \ disabled_bitmask(S, g),
                 !.validated = @ \ disabled_bitmask(S, g)]

\* The seconding limit of a manifest: the claims of the para in the
\* assignments of the claimed group.
ManifestSecondingLimit(S, g, para) ==
    Cardinality({i \in 1..Len(assignments_per_group(S, g)) :
                    assignments_per_group(S, g)[i] = para})

\* The reputation cost of a ManifestImportError.
ManifestErrorCost(err) ==
    CASE err = "Conflicting" -> COST_CONFLICTING_MANIFEST
      [] err = "Overflow" -> COST_EXCESSIVE_SECONDED
      [] err = "Insufficient" -> COST_INSUFFICIENT_MANIFEST
      [] err = "Malformed" -> COST_MALFORMED_MANIFEST
      [] OTHER -> COST_UNEXPECTED_MANIFEST_DISALLOWED

\* The grid validators allowed to send the manifest whose authority id the
\* peer controls.
ManifestSenders(S, p, g, kind) ==
    {v \in iter_sending_for_group(g, kind) : is_authority(S, p, discovery_keys(v))}

\* handle_incoming_manifest_common, from the import into the grid tracker
\* on: [S, ok, acknowledge, sender].
ManifestImport(S, p, c, rp, para, g, parent, know, kind) ==
    LET sender == CHOOSE v \in ManifestSenders(S, p, g, kind) : TRUE
        m == Summary(sender, c, g, parent, MaskDisabled(S, g, know))
        imp == import_manifest(S.prs.grid_tracker, c,
                    ManifestSecondingLimit(S, g, para), m, kind)
        S1 == [S EXCEPT !.prs.grid_tracker = imp.grid]
        ins == insert_unconfirmed(S1.candidates, Claim(p, rp, g, TRUE, parent, para), c)
    IN IF imp.result \notin {"Ack", "NoAck"}
       THEN [S |-> modify_reputation(S, p, ManifestErrorCost(imp.result)),
             ok |-> FALSE, acknowledge |-> FALSE, sender |-> sender]
       ELSE IF ~ins.ok
       THEN [S |-> modify_reputation(S1, p, COST_INACCURATE_ADVERTISEMENT),
             ok |-> FALSE, acknowledge |-> FALSE, sender |-> sender]
       ELSE [S |-> [S1 EXCEPT !.candidates = ins.cands],
             ok |-> TRUE, acknowledge |-> imp.result = "Ack", sender |-> sender]

Rejected(S) == [S |-> S, ok |-> FALSE, acknowledge |-> FALSE, sender |-> NoValidator]

\* handle_incoming_manifest_common
handle_incoming_manifest_common(S, p, c, rp, para, g, parent, know, kind) ==
    IF ~S.peers[p].connected THEN Rejected(S)
    ELSE IF rp # RP \/ ~S.prs.present
    THEN Rejected(modify_reputation(S, p, COST_UNEXPECTED_MANIFEST_MISSING_KNOWLEDGE))
    ELSE IF S.prs.local_validator = "none"
    THEN IF is_not_validator(S)
         THEN Rejected(modify_reputation(S, p, COST_UNEXPECTED_MANIFEST_MISSING_KNOWLEDGE))
         ELSE Rejected(S)
    ELSE IF g \notin groups_per_para(para)
    THEN Rejected(modify_reputation(S, p, COST_MALFORMED_MANIFEST))
    ELSE IF ~S.grid_view THEN Rejected(S)
    ELSE IF ManifestSenders(S, p, g, kind) = {}
    THEN Rejected(modify_reputation(S, p, COST_UNEXPECTED_MANIFEST_PEER_UNKNOWN))
    ELSE ManifestImport(S, p, c, rp, para, g, parent, know, kind)

\* handle_incoming_manifest requesting the candidate also when it is
\* confirmed.
handle_incoming_manifest_requesting(S, p, c, rp, para, g, parent, know) ==
    LET x == handle_incoming_manifest_common(S, p, c, rp, para, g, parent, know, "Full")
    IN IF ~x.ok THEN x.S
       ELSE IF x.acknowledge
       THEN acknowledgement_and_statement_messages(x.S, p, x.sender, g, c,
                local_knowledge_filter(g, c, x.S.prs.statement_store))
       ELSE [x.S EXCEPT !.request_manager =
                get_or_insert_add_peer(@, CandidateIdentifier(rp, c, g), p)]

\* handle_incoming_manifest
handle_incoming_manifest(S, p, c, rp, para, g, parent, know) ==
    LET x == handle_incoming_manifest_common(S, p, c, rp, para, g, parent, know, "Full")
    IN IF ~x.ok THEN x.S
       ELSE IF x.acknowledge
       THEN acknowledgement_and_statement_messages(x.S, p, x.sender, g, c,
                local_knowledge_filter(g, c, x.S.prs.statement_store))
       ELSE IF ~is_confirmed(x.S.candidates, c)
       THEN [x.S EXCEPT !.request_manager =
                get_or_insert_add_peer(@, CandidateIdentifier(rp, c, g), p)]
       ELSE x.S

\* handle_incoming_acknowledgement dropping an acknowledgement for an
\* unconfirmed candidate without a reputation change.
handle_incoming_acknowledgement_silent(S, p, c, know) ==
    IF ~is_confirmed(S.candidates, c) THEN S
    ELSE LET g == S.candidates[c].group
             x == handle_incoming_manifest_common(S, p, c, Receipt(c).relay_parent,
                      Receipt(c).para, g, Receipt(c).parent, know, "Ack")
         IN IF ~x.ok THEN x.S
            ELSE IF x.S.prs.local_validator = "none" THEN x.S
            ELSE post_acknowledgement_statement_messages(x.S, p, x.sender, g, c)

\* handle_incoming_acknowledgement
handle_incoming_acknowledgement(S, p, c, know) ==
    IF ~is_confirmed(S.candidates, c)
    THEN modify_reputation(S, p, COST_UNEXPECTED_ACKNOWLEDGEMENT_UNKNOWN_CANDIDATE)
    ELSE LET g == S.candidates[c].group
             x == handle_incoming_manifest_common(S, p, c, Receipt(c).relay_parent,
                      Receipt(c).para, g, Receipt(c).parent, know, "Ack")
         IN IF ~x.ok THEN x.S
            ELSE IF x.S.prs.local_validator = "none" THEN x.S
            ELSE post_acknowledgement_statement_messages(x.S, p, x.sender, g, c)

(***************************************************************************)
(* Backed candidates.                                                      *)
(***************************************************************************)

\* provide_candidate_to_grid, the loop body for one (validator, kind) action.
ProvideAction(S, c, g, filter, a) ==
    IF ~Reachable(S, a.v) THEN S
    ELSE post_acknowledgement_statement_messages(
            [S EXCEPT !.prs.grid_tracker = manifest_sent_to(@, a.v, c, filter),
                      !.network = Append(@,
                          IF a.kind = "Full"
                          THEN ManifestMsg(connected_validator_peer(S, a.v), c, g, filter)
                          ELSE AckMsg(connected_validator_peer(S, a.v), c, filter))],
            connected_validator_peer(S, a.v), a.v, g, c)

RECURSIVE ProvideActions(_, _, _, _, _)
ProvideActions(S, c, g, filter, actions) ==
    IF actions = {} THEN S
    ELSE LET a == CHOOSE y \in actions : TRUE
         IN ProvideActions(ProvideAction(S, c, g, filter, a), c, g, filter,
                           actions \ {a})

\* provide_candidate_to_grid
provide_candidate_to_grid(S, c) ==
    IF S.prs.local_validator = "none" \/ ~S.grid_view THEN S
    ELSE LET g == S.candidates[c].group
             filter == local_knowledge_filter(g, c, S.prs.statement_store)
             added == add_backed_candidate(S.prs.grid_tracker, c, g, filter)
         IN ProvideActions([S EXCEPT !.prs.grid_tracker = added.grid],
                           c, g, filter, added.actions)

\* handle_backed_candidate_message
handle_backed_candidate_message(S, c, member) ==
    IF ~is_confirmed(S.candidates, c) THEN S
    ELSE IF Receipt(c).relay_parent # RP \/ ~S.prs.present THEN S
    ELSE LET S1 == provide_candidate_to_grid(S, c)
         IN fragment_chain_update_inner(S1,
                frontier_hypotheticals(S1.candidates, para_head(c), Receipt(c).para),
                member)

(***************************************************************************)
(* Requests and responses.                                                 *)
(***************************************************************************)

NoThreshold == -1

\* seconded_and_sufficient
seconded_and_sufficient(filter, threshold) ==
    threshold = NoThreshold
        \/ (has_seconded(filter) /\ backing_validators(filter) >= threshold)

\* The peer_advertised closure of dispatch_requests: [some, filter].
peer_advertised(S, id, p) ==
    LET vs == find_validator_ids(S, p)
        cl == {v \in vs : S.prs.local_validator = "active"
                    /\ knows_candidate(S.prs.cluster_tracker, v, id.c)}
        gr == {v \in vs : advertised_statements(S.prs.grid_tracker, v, id.c).some}
    IN IF ~S.peers[p].connected \/ id.rp # RP \/ ~S.prs.present
          \/ S.prs.local_validator = "none"
       THEN [some |-> FALSE, filter |-> NoFilter]
       ELSE IF cl # {}
       THEN [some |-> TRUE,
             filter |-> BlankFilter(Cardinality(S.prs.cluster_tracker.validators))]
       ELSE IF gr # {}
       THEN advertised_statements(S.prs.grid_tracker, CHOOSE v \in gr : TRUE, id.c)
       ELSE [some |-> FALSE, filter |-> NoFilter]

\* An unwanted mask that leaves the votes of disabled validators wanted.
unwanted_mask_of_seconded_only(S, g) ==
    [len |-> Len(GroupSeq(g)),
     seconded |-> {i \in 1..Len(GroupSeq(g)) :
                      seconded_count(S.prs.statement_store, GroupSeq(g)[i])
                          >= Len(assignments_per_group(S, g))},
     validated |-> {}]

\* The unwanted mask of request_props: over-seconded and disabled validators.
unwanted_mask(S, g) ==
    [len |-> Len(GroupSeq(g)),
     seconded |-> {i \in 1..Len(GroupSeq(g)) :
                      seconded_count(S.prs.statement_store, GroupSeq(g)[i])
                          >= Len(assignments_per_group(S, g))}
                  \cup disabled_bitmask(S, g),
     validated |-> disabled_bitmask(S, g)]

\* The request_props closure of dispatch_requests: [some, unwanted, threshold].
request_props(S, id) ==
    IF id.rp # RP \/ ~S.prs.present \/ id.g \notin GroupIndices
       \/ S.prs.local_validator = "none"
    THEN [some |-> FALSE, unwanted |-> NoFilter, threshold |-> NoThreshold]
    ELSE [some |-> TRUE,
          unwanted |-> unwanted_mask(S, id.g),
          threshold |-> IF S.prs.local_validator = "active"
                           /\ by_validator_index(LocalIndex) = id.g
                        THEN NoThreshold
                        ELSE backing_threshold(id.g)]

\* ResponseManager::is_sending_to
is_sending_to(S, p) == \E r \in S.response_manager : r.peer = p

\* A peer the request can be sent to: it advertised the candidate with
\* sufficient wanted knowledge and no request to it is in flight.
IsRequestTarget(S, id, p) ==
    /\ peer_advertised(S, id, p).some
    /\ seconded_and_sufficient(
          [peer_advertised(S, id, p).filter EXCEPT
              !.seconded = @ \ request_props(S, id).unwanted.seconded,
              !.validated = @ \ request_props(S, id).unwanted.validated],
          request_props(S, id).threshold)
    /\ ~is_sending_to(S, p)

\* A request manager whose next_request does not wait for the retry time.
DispatchableBeforeRetry(S) ==
    {id \in DOMAIN S.request_manager :
        /\ ~S.request_manager[id].in_flight
        /\ request_props(S, id).some
        /\ \E i \in 1..Len(S.request_manager[id].known_by) :
              IsRequestTarget(S, id, S.request_manager[id].known_by[i])}

\* The requests next_request can dispatch now.
Dispatchable(S) ==
    {id \in DOMAIN S.request_manager :
        /\ ~S.request_manager[id].in_flight
        /\ S.request_manager[id].next_retry_time <= 0
        /\ request_props(S, id).some
        /\ \E i \in 1..Len(S.request_manager[id].known_by) :
              IsRequestTarget(S, id, S.request_manager[id].known_by[i])}

\* AttestedCandidateRequest to peer p
RequestMsg(p, id, mask) == [type |-> "Request", to |-> p, c |-> id.c, mask |-> mask]

\* RequestManager::next_request for the chosen request.
next_request(S, id) ==
    LET e == S.request_manager[id]
        i == CHOOSE j \in 1..Len(e.known_by) :
                /\ IsRequestTarget(S, id, e.known_by[j])
                /\ \A k \in 1..(j - 1) : ~IsRequestTarget(S, id, e.known_by[k])
        target == e.known_by[i]
        props == request_props(S, id)
    IN [S EXCEPT
          !.request_manager[id].in_flight = TRUE,
          !.response_manager = @ \cup {[id |-> id, peer |-> target,
                                        unwanted |-> props.unwanted,
                                        threshold |-> props.threshold]},
          !.network = Append(@, RequestMsg(target, id, props.unwanted))]

\* dispatch_requests: cluster requests go first.
RECURSIVE dispatch_requests(_)
dispatch_requests(S) ==
    IF Dispatchable(S) = {} THEN S
    ELSE LET first == IF \E id \in Dispatchable(S) : S.request_manager[id].cluster
                      THEN {id \in Dispatchable(S) : S.request_manager[id].cluster}
                      ELSE Dispatchable(S)
         IN dispatch_requests(next_request(S, CHOOSE id \in first : TRUE))

\* The cost of one statement of a response, "" when it is accepted.
ResponseStatementCost(S, r, x) ==
    IF x.v \notin GroupSet(r.id.g) THEN COST_UNREQUESTED_RESPONSE_STATEMENT
    ELSE IF x.st.c # r.id.c THEN COST_UNREQUESTED_RESPONSE_STATEMENT
    ELSE IF FilterContains(r.unwanted, SeatOf(r.id.g, x.v), x.st.kind)
    THEN COST_UNREQUESTED_RESPONSE_STATEMENT
    ELSE IF SeatOf(r.id.g, x.v) \in disabled_bitmask(S, r.id.g)
    THEN COST_UNREQUESTED_RESPONSE_STATEMENT
    ELSE IF ~x.sig THEN COST_INVALID_SIGNATURE
    ELSE <<>>

\* The statements of a response that pass the checks.
ResponseAccepted(S, r, resp) ==
    {SignedStmt(x.v, x.st) : x \in {y \in resp.stmts : ResponseStatementCost(S, r, y) = <<>>}}

\* The knowledge filter of the accepted statements.
received_filter(g, stmts) ==
    [len |-> Len(GroupSeq(g)),
     seconded |-> {SeatOf(g, x.v) : x \in {y \in stmts : y.st.kind = "Seconded"}},
     validated |-> {SeatOf(g, x.v) : x \in {y \in stmts : y.st.kind = "Valid"}}]

RECURSIVE ChargeStatements(_, _, _, _)
ChargeStatements(S, S0, r, xs) ==
    IF xs = <<>> THEN S
    ELSE ChargeStatements(
            IF ResponseStatementCost(S0, r, Head(xs)) = <<>> THEN S
            ELSE modify_reputation(S, r.peer, ResponseStatementCost(S0, r, Head(xs))),
            S0, r, Tail(xs))

\* UnhandledResponse::validate_response: [S, status, statements]; status
\* is "Outdated", "Incomplete" or "Complete".
validate_response(S, r, resp) ==
    LET S0 == [S EXCEPT !.response_manager = @ \ {r}]
        S1 == [S0 EXCEPT !.request_manager[r.id].in_flight = FALSE,
                         !.request_manager[r.id].next_retry_time =
                             REQUEST_RETRY_DELAY * TicksPerSecond]
        S2 == ChargeStatements(S1, S1, r, SetToSeq(resp.stmts))
        acc == ResponseAccepted(S1, r, resp)
    IN IF r.id \notin DOMAIN S.request_manager
       THEN [S |-> S0, status |-> "Outdated", statements |-> {}]
       ELSE IF resp.kind = "error"
       THEN [S |-> S1, status |-> "Incomplete", statements |-> {}]
       ELSE IF \/ resp.c # r.id.c
               \/ Receipt(resp.c).relay_parent # r.id.rp
               \/ r.id.g \notin groups_per_para(Receipt(resp.c).para)
       THEN [S |-> modify_reputation(S1, r.peer, COST_INVALID_RESPONSE),
             status |-> "Incomplete", statements |-> {}]
       ELSE IF ~seconded_and_sufficient(received_filter(r.id.g, acc), r.threshold)
       THEN [S |-> modify_reputation(S2, r.peer, COST_INVALID_RESPONSE),
             status |-> "Incomplete", statements |-> {}]
       ELSE [S |-> modify_reputation(
                    [S2 EXCEPT !.request_manager =
                        [x \in DOMAIN @ \ {r.id} |-> @[x]]],
                    r.peer, BENEFIT_VALID_RESPONSE),
             status |-> "Complete", statements |-> acc]

RECURSIVE InsertAll(_, _)
InsertAll(store, stmts) ==
    IF stmts = {} THEN store
    ELSE LET x == CHOOSE y \in stmts : TRUE
         IN InsertAll(StoreInsert(store, x.v, x.st, FALSE).store, stmts \ {x})

\* handle_response
handle_response(S, r, resp, member) ==
    IF r.id.rp # RP \/ ~S.prs.present THEN [S EXCEPT !.response_manager = @ \ {r}]
    ELSE LET val == validate_response(S, r, resp)
             S1 == [val.S EXCEPT !.prs.statement_store = InsertAll(@, val.statements)]
             conf == confirm_candidate(S1.candidates, r.id.c, r.id.g)
             S2 == [S1 EXCEPT !.candidates = conf.cands]
             S3 == apply_post_confirmation(S2, r.id.c, conf, member)
         IN IF val.status # "Complete" THEN val.S
            ELSE IF ~conf.some THEN S2
            ELSE IF ~is_importable(S3.candidates, r.id.c) THEN S3
            ELSE send_backing_fresh_statements(S3, r.id.c, r.id.g)


\* OutgoingResponse with Err(()) and a reputation change
ResponseErr(p, c, rep) == [type |-> "ResponseErr", to |-> p, c |-> c, rep |-> rep]

\* AttestedCandidateResponse to peer p: the receipt and the statements
ResponseMsg(p, c, stmts) == [type |-> "Response", to |-> p, c |-> c, stmts |-> stmts]

\* The cluster validators of the peer that may request the candidate.
ClusterRequesters(S, p, c) ==
    {v \in find_validator_ids(S, p) :
        S.prs.local_validator = "active"
            /\ cluster_can_request(S.prs.cluster_tracker, v, c)}

\* The grid validators of the peer that may request the candidate.
GridRequesters(S, p, c) ==
    {v \in find_validator_ids(S, p) : grid_can_request(S.prs.grid_tracker, v, c)}

\* The statements answer_request puts into the response: those of the
\* candidate's group that the request mask does not exclude.
AnswerStatements(S, c, mask) ==
    group_statements_set(S.prs.statement_store, S.candidates[c].group, c,
        [len |-> mask.len,
         seconded |-> (1..mask.len) \ mask.seconded,
         validated |-> (1..mask.len) \ mask.validated])

\* The lengths of the two bitfields of a request mask: a mask of the
\* network whose validated bitfield differs in length carries it as vlen.
seconded_in_group_len(mask) == mask.len

validated_in_group_len(mask) == IF "vlen" \in DOMAIN mask THEN mask.vlen ELSE mask.len

\* An answer_request that answers grid requests whatever statements it
\* has to send.
answer_request_below_threshold(S, p, c, mask) ==
    IF ~is_confirmed(S.candidates, c) THEN S
    ELSE IF Receipt(c).relay_parent # RP \/ ~S.prs.present THEN S
    ELSE IF S.prs.local_validator = "none" THEN S
    ELSE IF ~S.peers[p].connected THEN S
    ELSE IF \/ seconded_in_group_len(mask) # Len(GroupSeq(S.candidates[c].group))
            \/ validated_in_group_len(mask) # Len(GroupSeq(S.candidates[c].group))
    THEN [S EXCEPT !.network =
            Append(@, ResponseErr(p, c, COST_INVALID_REQUEST_BITFIELD_SIZE))]
    ELSE IF ClusterRequesters(S, p, c) # {}
    THEN [S EXCEPT
            !.prs.cluster_tracker = NoteSentStatements(@,
                CHOOSE v \in ClusterRequesters(S, p, c) : TRUE,
                AnswerStatements(S, c, mask)),
            !.network = Append(@, ResponseMsg(p, c, AnswerStatements(S, c, mask)))]
    ELSE IF GridRequesters(S, p, c) # {}
    THEN [S EXCEPT
            !.prs.grid_tracker = GridSentStatements(@,
                CHOOSE v \in GridRequesters(S, p, c) : TRUE,
                AnswerStatements(S, c, mask)),
            !.network = Append(@, ResponseMsg(p, c, AnswerStatements(S, c, mask)))]
    ELSE [S EXCEPT !.network = Append(@, ResponseErr(p, c, COST_UNEXPECTED_REQUEST))]

\* answer_request
answer_request(S, p, c, mask) ==
    IF ~is_confirmed(S.candidates, c) THEN S
    ELSE IF Receipt(c).relay_parent # RP \/ ~S.prs.present THEN S
    ELSE IF S.prs.local_validator = "none" THEN S
    ELSE IF ~S.peers[p].connected THEN S
    ELSE IF \/ seconded_in_group_len(mask) # Len(GroupSeq(S.candidates[c].group))
            \/ validated_in_group_len(mask) # Len(GroupSeq(S.candidates[c].group))
    THEN [S EXCEPT !.network =
            Append(@, ResponseErr(p, c, COST_INVALID_REQUEST_BITFIELD_SIZE))]
    ELSE IF ClusterRequesters(S, p, c) # {}
    THEN [S EXCEPT
            !.prs.cluster_tracker = NoteSentStatements(@,
                CHOOSE v \in ClusterRequesters(S, p, c) : TRUE,
                AnswerStatements(S, c, mask)),
            !.network = Append(@, ResponseMsg(p, c, AnswerStatements(S, c, mask)))]
    ELSE IF GridRequesters(S, p, c) # {}
    THEN IF ~seconded_and_sufficient(
                received_filter(S.candidates[c].group, AnswerStatements(S, c, mask)),
                backing_threshold(S.candidates[c].group))
         THEN S
         ELSE [S EXCEPT
                 !.prs.grid_tracker = GridSentStatements(@,
                     CHOOSE v \in GridRequesters(S, p, c) : TRUE,
                     AnswerStatements(S, c, mask)),
                 !.network = Append(@, ResponseMsg(p, c, AnswerStatements(S, c, mask)))]
    ELSE [S EXCEPT !.network = Append(@, ResponseErr(p, c, COST_UNEXPECTED_REQUEST))]

(***************************************************************************)
(* Events.  Every action is one event handled to completion.               *)
(***************************************************************************)

\* The statements a message delivers to its recipient.
Deliveries(m) ==
    IF m.type = "Statement"
    THEN {[p |-> m.to, v |-> m.v, st |-> m.st, via |-> "Statement"]}
    ELSE IF m.type = "Response"
    THEN {[p |-> m.to, v |-> x.v, st |-> x.st, via |-> "Response"] : x \in m.stmts}
    ELSE {}

DeliveryKey(d) == [p |-> d.p, v |-> d.v, st |-> d.st]

\* The history of deliveries after the messages of one event: once holds
\* what was delivered, again what was delivered a second time and how.
RECURSIVE LogDeliveries(_, _)
LogDeliveries(h, msgs) ==
    IF msgs = <<>> THEN h
    ELSE LET ds == Deliveries(Head(msgs))
         IN LogDeliveries(
                [once |-> h.once \cup {DeliveryKey(d) : d \in ds},
                 again |-> h.again \cup {d \in ds : DeliveryKey(d) \in h.once}],
                Tail(msgs))

\* The history of first-statement rewards after one event.
LogRewards(h, ev, reps) ==
    IF ev.name = "Statement"
       /\ \E i \in 1..Len(reps) : reps[i].rep = BENEFIT_VALID_STATEMENT_FIRST
    THEN [first |-> h.first \cup {SignedStmt(ev.v, ev.st)},
          again |-> h.again \cup ({SignedStmt(ev.v, ev.st)} \cap h.first)]
    ELSE h

\* The history of statements handed to candidate backing after one event.
RECURSIVE LogForwards(_, _)
LogForwards(h, stmts) ==
    IF stmts = <<>> THEN h
    ELSE LogForwards([once |-> h.once \cup {Head(stmts)},
                      again |-> h.again \cup ({Head(stmts)} \cap h.once)],
                     Tail(stmts))

\* The sessions whose topology arrived, after the event ev.
LogTopologies(h, ev) ==
    IF ev.name # "NewGossipTopology" THEN h
    ELSE h \cup {IF "session" \in DOMAIN ev THEN ev.session ELSE SessionOfRP}

\* The state of the orchestrator after an event: the handler's result S and
\* the event ev.
CommitState(S, ev) ==
    /\ peers' = S.peers
    /\ authorities' = S.authorities
    /\ implicit_view' = S.implicit_view
    /\ per_session' = S.per_session
    /\ unused_topologies' = S.unused_topologies
    /\ keystore' = S.keystore
    /\ relay_parents' = S.relay_parents
    /\ per_relay_parent' = S.prs
    /\ candidates' = S.candidates
    /\ request_manager' = S.request_manager
    /\ response_manager' = S.response_manager
    /\ reputation' = S.reputation
    /\ network' = S.network
    /\ backing' = S.backing
    /\ result' = S.result
    /\ event' = ev
    /\ delivered' = LogDeliveries(delivered, S.network)
    /\ rewarded' = LogRewards(rewarded, ev, S.reputation)
    /\ forwarded' = LogForwards(forwarded, S.backing)
    /\ topologies' = LogTopologies(topologies, ev)
    /\ events' = events + 1

\* The state after an event of the orchestrator that is no ResponderMessage.
Commit(S, ev) == CommitState(S, ev) /\ UNCHANGED responder_vars

\* NetworkBridgeEvent::PeerConnected
PeerConnected(P) ==
    \E p \in P : \E ids \in {{}, {AnnouncedAuthority(p)}} :
        /\ ~peers[p].connected
        /\ Commit(peer_connected(State, p, ids),
                  [name |-> "PeerConnected", peer |-> p])

\* NetworkBridgeEvent::PeerConnected with one of the authority id sets Ids
PeerConnectedAs(P, Ids) ==
    \E p \in P, ids \in Ids :
        /\ ~peers[p].connected
        /\ Commit(peer_connected(State, p, ids),
                  [name |-> "PeerConnected", peer |-> p])

\* NetworkBridgeEvent::PeerDisconnected
PeerDisconnected(P) ==
    \E p \in P :
        /\ peers[p].connected
        /\ Commit(peer_disconnected(State, p),
                  [name |-> "PeerDisconnected", peer |-> p])

\* handle_network_update, NetworkBridgeEvent::UpdatedAuthorityIds
updated_authority_ids(S, p, ids) ==
    IF ~S.peers[p].connected THEN S
    ELSE [S EXCEPT
            !.authorities = [a \in AuthorityIds |->
                                IF a \in ids THEN p
                                ELSE IF S.authorities[a] = p THEN NoPeer
                                ELSE S.authorities[a]],
            !.peers[p].ids = ids]

\* NetworkBridgeEvent::UpdatedAuthorityIds
UpdatedAuthorityIds(P, Ids) ==
    \E p \in P, ids \in Ids :
        Commit(updated_authority_ids(State, p, ids),
               [name |-> "UpdatedAuthorityIds", peer |-> p, ids |-> ids])

\* NetworkBridgeEvent::PeerViewChange
PeerViewChange(P) ==
    \E p \in P, view \in {{}, {RP}} :
        /\ peers[p].connected
        /\ view # peers[p].view
        /\ Commit(handle_peer_view_update(State, p, view),
                  [name |-> "PeerViewChange", peer |-> p, view |-> view])

\* StatementDistributionMessage::Share from candidate backing
Share(C, Members) ==
    \E k \in Kinds, c \in C, member \in Members :
        Commit(share_local_statement(State, RP, LocalIndex, Stmt(k, c), member),
               [name |-> "Share", v |-> LocalIndex, st |-> Stmt(k, c),
                member |-> member])

\* StatementDistributionMessage::Share with any relay parent and signer
ShareAs(R, V, C, Members) ==
    \E rp \in R, v \in V, k \in Kinds, c \in C, member \in Members :
        Commit(share_local_statement(State, rp, v, Stmt(k, c), member),
               [name |-> "Share", rp |-> rp, v |-> v, st |-> Stmt(k, c),
                member |-> member])

\* A statement signed by the local validator exists only once it was shared.
SignatureValid(o, st, sig) ==
    sig /\ (o = LocalIndex =>
                validator_statement(per_relay_parent.statement_store, o, st))

\* protocol_v3::StatementDistributionMessage::Statement from a peer
IncomingStatement(P, R, O, C, Sigs) ==
    \E p \in P, rp \in R, o \in O, k \in Kinds, c \in C, sig \in Sigs :
        /\ peers[p].connected
        /\ Commit(handle_incoming_statement(State, p, rp, o, Stmt(k, c),
                                            SignatureValid(o, Stmt(k, c), sig)),
                  [name |-> "Statement", peer |-> p, rp |-> rp, v |-> o,
                   st |-> Stmt(k, c), sig |-> SignatureValid(o, Stmt(k, c), sig)])

\* The statement knowledge of n seats with the given votes.
Knowledge(n, sec, val) == [len |-> n, seconded |-> sec, validated |-> val]

\* protocol_v3::StatementDistributionMessage::BackedCandidateManifest; a
\* manifest of Ms is a record [c, para, group, parent, know].
IncomingManifest(P, R, Ms) ==
    \E p \in P, rp \in R, m \in Ms :
        /\ peers[p].connected
        /\ Commit(handle_incoming_manifest(State, p, m.c, rp, m.para, m.group,
                                           m.parent, m.know),
                  [name |-> "Manifest", peer |-> p, rp |-> rp, c |-> m.c,
                   para |-> m.para, group |-> m.group, parent |-> m.parent,
                   know |-> m.know])

\* protocol_v3::StatementDistributionMessage::BackedCandidateKnown
IncomingAcknowledgement(P, C, Ks) ==
    \E p \in P, c \in C, know \in Ks :
        /\ peers[p].connected
        /\ Commit(handle_incoming_acknowledgement(State, p, c, know),
                  [name |-> "Ack", peer |-> p, c |-> c, know |-> know])

\* StatementDistributionMessage::Backed from candidate backing, which
\* reports a candidate once it holds the backing votes.
Backed(C, Members) ==
    \E c \in C, member \in Members :
        /\ is_confirmed(candidates, c)
        /\ backing_validators(local_knowledge_filter(candidates[c].group, c,
                per_relay_parent.statement_store)) >= backing_threshold(candidates[c].group)
        /\ Commit(handle_backed_candidate_message(State, c, member),
               [name |-> "Backed", c |-> c, member |-> member])

\* The main loop calls dispatch_requests.
DispatchRequests ==
    /\ has_pending_requests(request_manager)
    /\ Commit(dispatch_requests(State), [name |-> "Dispatch"])

\* MuxedMessage::Response: the response to a request in flight arrives.
Response(Resps, Members) ==
    \E r \in response_manager, resp \in Resps, member \in Members :
        Commit(handle_response(State, r, resp, member),
               [name |-> "Response", peer |-> r.peer, id |-> r.id,
                resp |-> resp, member |-> member])

\* MuxedMessage::RetryRequest: next_retry resolves, never when no retry
\* time lies ahead.
RetryRequest ==
    /\ next_retry_time(request_manager) # NoRetryTime
    /\ Commit([State EXCEPT !.request_manager = next_retry(@)],
              [name |-> "Retry"])

\* A tick passes before the earliest retry time.
TimePasses ==
    /\ next_retry_time(request_manager) > 1
    /\ Commit([State EXCEPT !.request_manager = time_passes(@, 1)],
              [name |-> "TimePasses"])

\* MuxedMessage::Responder: a peer's request for a candidate is served.
AnswerRequest(P, C, Masks) ==
    \E p \in P, c \in C, mask \in Masks :
        /\ peers[p].connected
        /\ Commit(answer_request(State, p, c, mask),
                  [name |-> "Request", peer |-> p, c |-> c, mask |-> mask])

(***************************************************************************)
(* The responder task.  respond_task runs beside the orchestrator: it      *)
(* receives the requests of the peers and feeds them to the orchestrator   *)
(* through a bounded channel; answer_request resolves the sent-feedback    *)
(* of a request as soon as it starts to process it.                        *)
(***************************************************************************)

\* No request that respond_task holds.
NoRequest == [peer |-> NoPeer]

\* The cap of requests with outstanding sent-feedback, scaled to the three
\* peers of the model.
MAX_PARALLEL_ATTESTED_CANDIDATE_REQUESTS == 2

\* The capacity of the channel from respond_task to the orchestrator.
ResponderChannelCapacity == 1

\* respond_task admitting every request below the cap.
request_admission_any_peer(active, pending, p) ==
    IF Cardinality(pending) >= MAX_PARALLEL_ATTESTED_CANDIDATE_REQUESTS THEN "wait"
    ELSE "feed"

\* respond_task admitting every request of a peer that is not served.
request_admission_uncapped(active, pending, p) ==
    IF p \in active THEN "drop" ELSE "feed"

\* respond_task on a new request of peer p: drop it, wait for an
\* outstanding request to finish, or feed it to the orchestrator.
request_admission(active, pending, p) ==
    IF p \in active THEN "drop"
    ELSE IF Cardinality(pending) >= MAX_PARALLEL_ATTESTED_CANDIDATE_REQUESTS THEN "wait"
    ELSE "feed"

\* A step of respond_task: the state of the orchestrator stays.
ResponderStep(ev) ==
    /\ event' = ev
    /\ events' = events + 1
    /\ UNCHANGED <<peers, authorities, implicit_view, per_session,
                   unused_topologies, keystore, relay_parents, per_relay_parent, candidates,
                   request_manager, response_manager, reputation, network, backing,
                   result, delivered, rewarded, forwarded, topologies>>

\* respond_task, the select branch of a new request
IncomingRequest(P, C, Masks) ==
    \E p \in P, c \in C, mask \in Masks :
        LET admission == request_admission(active_peers, pending_out, p)
        IN /\ respond_pc = "select"
           /\ respond_pc' = IF admission = "drop" THEN "select" ELSE admission
           /\ held' = IF admission = "drop" THEN NoRequest
                      ELSE [peer |-> p, c |-> c, mask |-> mask]
           /\ UNCHANGED <<pending_out, active_peers, responder_messages>>
           /\ ResponderStep([name |-> "IncomingRequest", peer |-> p, c |-> c,
                             mask |-> mask, admission |-> admission])

\* respond_task at the cap: pending_out.select_next_some() yields a
\* request that finished.
WaitForOne ==
    \E e \in pending_out :
        /\ respond_pc = "wait"
        /\ e.ready
        /\ pending_out' = pending_out \ {e}
        /\ active_peers' = active_peers \ {e.peer}
        /\ respond_pc' = "feed"
        /\ UNCHANGED <<held, responder_messages>>
        /\ ResponderStep([name |-> "WaitedForOne", peer |-> e.peer])

\* respond_task feeds the request it holds to the orchestrator, once the
\* channel has room, and keeps its sent-feedback future.
FeedRequest ==
    /\ respond_pc = "feed"
    /\ Len(responder_messages) < ResponderChannelCapacity
    /\ responder_messages' = Append(responder_messages,
            [id |-> events, peer |-> held.peer, c |-> held.c, mask |-> held.mask])
    /\ pending_out' = pending_out \cup
                        {[id |-> events, peer |-> held.peer, ready |-> FALSE]}
    /\ active_peers' = active_peers \cup {held.peer}
    /\ respond_pc' = "select"
    /\ held' = NoRequest
    /\ ResponderStep([name |-> "Forwarded", peer |-> held.peer])

\* respond_task, the select branch of a request that finished
RequestFinished ==
    \E e \in pending_out :
        /\ respond_pc = "select"
        /\ e.ready
        /\ pending_out' = pending_out \ {e}
        /\ active_peers' = active_peers \ {e.peer}
        /\ UNCHANGED <<respond_pc, held, responder_messages>>
        /\ ResponderStep([name |-> "Finished", peer |-> e.peer])

\* MuxedMessage::Responder: the orchestrator takes the next
\* ResponderMessage; answer_request resolves its sent-feedback and answers.
ServeRequest ==
    /\ responder_messages # <<>>
    /\ LET m == Head(responder_messages)
       IN /\ pending_out' = {IF e.id = m.id THEN [e EXCEPT !.ready = TRUE] ELSE e :
                                e \in pending_out}
          /\ CommitState(answer_request(State, m.peer, m.c, m.mask),
                         [name |-> "Request", peer |-> m.peer, c |-> m.c,
                          mask |-> m.mask])
    /\ responder_messages' = Tail(responder_messages)
    /\ UNCHANGED <<respond_pc, held, active_peers>>

\* NetworkBridgeEvent::NewGossipTopology for the session of RP
NewGossipTopology ==
    /\ per_session[SessionOfRP] = "created"
    /\ Commit(new_gossip_topology(State, SessionOfRP), [name |-> "NewGossipTopology"])

(***************************************************************************)
(* Initial states: the node has activated the leaf RP.                     *)
(***************************************************************************)

\* PerRelayParentState of RP as handle_active_leaf_update builds it: n
\* claim-queue assignments of ParaA to the local group.
NewRelayParentState(local, n, disabled) ==
    [present |-> TRUE, local_validator |-> local, assignments |-> n,
     disabled |-> disabled, statement_store |-> EmptyStore,
     cluster_tracker |-> NewClusterTracker(GroupSet(by_validator_index(LocalIndex)), n),
     grid_tracker |-> EmptyGrid]

\* respond_task when it starts.
InitResponder ==
    /\ respond_pc = "select"
    /\ held = NoRequest
    /\ pending_out = {}
    /\ active_peers = {}
    /\ responder_messages = <<>>

\* A connected peer that announced its authority id and has RP in its view.
ConnectedPeer(p) ==
    [connected |-> TRUE, view |-> {RP}, implicit_view |-> {RP},
     ids |-> {AnnouncedAuthority(p)}]

\* The state with the peers of P connected, the others not.
InitWith(P, local, n, disabled, topology) ==
    /\ peers = [p \in PeerIds |-> IF p \in P THEN ConnectedPeer(p) ELSE Disconnected]
    /\ authorities = [a \in AuthorityIds |->
            IF \E p \in P : AnnouncedAuthority(p) = a
            THEN CHOOSE p \in P : AnnouncedAuthority(p) = a
            ELSE NoPeer]
    /\ implicit_view = {RP}
    /\ per_session = [s \in Sessions |->
            IF s # SessionOfRP THEN "none"
            ELSE IF topology THEN "topology" ELSE "created"]
    /\ unused_topologies = {}
    /\ keystore = local
    /\ relay_parents = {}
    /\ per_relay_parent = NewRelayParentState(local, n, disabled)
    /\ candidates = [c \in CandidateHashes |-> NoCandidate]
    /\ request_manager = <<>>
    /\ response_manager = {}
    /\ reputation = <<>>
    /\ network = <<>>
    /\ backing = <<>>
    /\ result = "Ok"
    /\ event = [name |-> "Init"]
    /\ InitResponder
    /\ delivered = [once |-> {}, again |-> {}]
    /\ rewarded = [first |-> {}, again |-> {}]
    /\ forwarded = [once |-> {}, again |-> {}]
    /\ topologies = IF topology THEN {SessionOfRP} ELSE {}
    /\ events = 0

(***************************************************************************)
(* Leaf activation and deactivation.  The implicit view is the set of      *)
(* active leaves; the relay parents it allows are those of AllowedUnder.   *)
(***************************************************************************)

\* ImplicitView::all_allowed_relay_parents
all_allowed_relay_parents(leaves) == UNION {AllowedUnder(l) : l \in leaves}

\* ImplicitView::deactivate_leaf: the relay parents no leaf allows any more.
deactivate_leaf(leaves, leaf) ==
    IF leaf \notin leaves THEN {}
    ELSE AllowedUnder(leaf) \ all_allowed_relay_parents(leaves \ {leaf})

\* State.per_relay_parent.contains_key
HasRelayParentState(S, h) ==
    IF h = RP THEN S.prs.present ELSE h \in S.relay_parents

\* The sessions the PerRelayParentStates refer to.
ReferencedSessions(S) ==
    {session_index_for_child(h) : h \in {x \in Hashes : HasRelayParentState(S, x)}}

\* The entry of RP after its PerRelayParentState was removed.
NoRelayParentState == [NewRelayParentState("none", 0, {}) EXCEPT !.present = FALSE]

\* How the chain-state queries of one handle_active_leaf_update end: all
\* succeed ("ok"), the disabled validators or the session index fail
\* ("early"), or the group rotation or the claim queue fail ("late").
QueryOutcomes == {"ok", "early", "late"}

\* handle_active_leaf_update inserting the PerRelayParentState whatever the
\* queries answered.
handle_active_leaf_update_unchecked(S, h, outcome) ==
    LET s == session_index_for_child(h)
        S1 == IF S.per_session[s] # "none" THEN S
              ELSE [WithSessions(S, [S.per_session EXCEPT ![s] =
                        IF s \in S.unused_topologies THEN "topology" ELSE "created"])
                    EXCEPT !.unused_topologies = @ \ {s}]
    IN IF h = RP
       THEN [S1 EXCEPT !.prs =
                NewRelayParentState(session_local_validator(S1, s), 1, {})]
       ELSE [S1 EXCEPT !.relay_parents = @ \cup {h}]

\* handle_active_leaf_update
handle_active_leaf_update(S, h, outcome) ==
    LET s == session_index_for_child(h)
        S1 == IF S.per_session[s] # "none" THEN S
              ELSE [WithSessions(S, [S.per_session EXCEPT ![s] =
                        IF s \in S.unused_topologies THEN "topology" ELSE "created"])
                    EXCEPT !.unused_topologies = @ \ {s}]
    IN IF outcome = "early" THEN S
       ELSE IF outcome = "late" THEN S1
       ELSE IF h = RP
       THEN [S1 EXCEPT !.prs =
                NewRelayParentState(session_local_validator(S1, s), 1, {})]
       ELSE [S1 EXCEPT !.relay_parents = @ \cup {h}]

\* The loop of handle_active_leaves_update over the relay parents hs.
RECURSIVE ActivateAll(_, _, _)
ActivateAll(S, hs, outcomes) ==
    IF hs = {} THEN S
    ELSE LET h == CHOOSE y \in hs : TRUE
         IN ActivateAll(handle_active_leaf_update(S, h, outcomes[h]),
                        hs \ {h}, outcomes)

\* PeerState::reconcile_active_leaf: [peer, fresh]
reconcile_active_leaf(ps, leaf, implicit) ==
    IF leaf \notin ps.view THEN [peer |-> ps, fresh |-> {}]
    ELSE [peer |-> [ps EXCEPT !.implicit_view = @ \cup implicit],
          fresh |-> implicit \ ps.implicit_view]

RECURSIVE SendToUpdatedPeers(_, _, _)
SendToUpdatedPeers(S, ps, rp) ==
    IF ps = {} THEN S
    ELSE LET p == CHOOSE y \in ps : TRUE
         IN SendToUpdatedPeers(send_peer_messages_for_relay_parent(S, p, rp),
                               ps \ {p}, rp)

\* Candidates::frontier_hypotheticals(None)
all_hypotheticals(cands) ==
    {c \in CandidateHashes :
        \/ cands[c].state = "Confirmed"
        \/ cands[c].state = "Unconfirmed" /\ \E cl \in cands[c].claims : cl.has_parent}

\* new_leaf_fragment_chain_updates over the hypotheticals cs.
RECURSIVE new_leaf_fragment_chain_updates(_, _, _, _)
new_leaf_fragment_chain_updates(S, cs, leaf, member) ==
    IF cs = {} THEN S
    ELSE LET c == CHOOSE y \in cs : TRUE
         IN new_leaf_fragment_chain_updates(
                FragmentChainUpdateUnder(S, c,
                    IF member THEN Membership(S, c) \cap {leaf} ELSE {}),
                cs \ {c}, leaf, member)

\* handle_active_leaves_update running handle_active_leaf_update for every
\* allowed relay parent, tracked or not.
handle_active_leaves_update_recreating(S, leaf, activated, outcomes, member) ==
    IF ~activated THEN [S EXCEPT !.result = "ActivateLeafFailure"]
    ELSE LET leaves == S.implicit_view \cup {leaf}
             new_relay_parents == all_allowed_relay_parents(leaves)
             S1 == ActivateAll([S EXCEPT !.implicit_view = leaves],
                       new_relay_parents,
                       outcomes)
             S2 == [S1 EXCEPT !.peers = [p \in PeerIds |->
                       reconcile_active_leaf(S1.peers[p], leaf, new_relay_parents).peer]]
             S3 == SendToUpdatedPeers(S2,
                       {p \in PeerIds : RP \in
                           reconcile_active_leaf(S1.peers[p], leaf, new_relay_parents).fresh},
                       RP)
         IN new_leaf_fragment_chain_updates(S3, all_hypotheticals(S3.candidates),
                                            leaf, member)

\* handle_active_leaves_update; activated tells whether the implicit view
\* could fetch the ancestry of the leaf.  Only the statements of RP are
\* kept, so that the fresh relay parents other than RP have nothing to send.
handle_active_leaves_update(S, leaf, activated, outcomes, member) ==
    IF ~activated THEN [S EXCEPT !.result = "ActivateLeafFailure"]
    ELSE LET leaves == S.implicit_view \cup {leaf}
             new_relay_parents == all_allowed_relay_parents(leaves)
             S1 == ActivateAll([S EXCEPT !.implicit_view = leaves],
                       {h \in new_relay_parents : ~HasRelayParentState(S, h)},
                       outcomes)
             S2 == [S1 EXCEPT !.peers = [p \in PeerIds |->
                       reconcile_active_leaf(S1.peers[p], leaf, new_relay_parents).peer]]
             S3 == SendToUpdatedPeers(S2,
                       {p \in PeerIds : RP \in
                           reconcile_active_leaf(S1.peers[p], leaf, new_relay_parents).fresh},
                       RP)
         IN new_leaf_fragment_chain_updates(S3, all_hypotheticals(S3.candidates),
                                            leaf, member)

\* Candidates::on_deactivate_leaves
on_deactivate_leaves(cands, leaves, live) ==
    [c \in CandidateHashes |->
        IF cands[c].state = "Confirmed"
        THEN IF Receipt(c).relay_parent \in live
             THEN [cands[c] EXCEPT !.importable_under = @ \ leaves]
             ELSE NoCandidate
        ELSE IF cands[c].state = "Unconfirmed"
        THEN LET kept == {cl \in cands[c].claims : cl.rp \in live}
             IN IF kept = {} THEN NoCandidate
                ELSE [cands[c] EXCEPT !.claims = kept]
        ELSE cands[c]]

\* The body of the loop of handle_deactivate_leaves for one leaf.
DeactivateLeaf(S, leaf) ==
    LET pruned == deactivate_leaf(S.implicit_view, leaf)
    IN [S EXCEPT !.implicit_view = @ \ {leaf},
                 !.prs = IF RP \in pruned THEN NoRelayParentState ELSE @,
                 !.relay_parents = @ \ pruned,
                 !.request_manager = IF pruned = {} THEN @
                                     ELSE remove_by_relay_parent(@, leaf)]

\* The loop of handle_deactivate_leaves over the sequence leaves.
RECURSIVE DeactivateAll(_, _)
DeactivateAll(S, leaves) ==
    IF leaves = <<>> THEN S
    ELSE DeactivateAll(DeactivateLeaf(S, Head(leaves)), Tail(leaves))

\* Every session is kept.
RetainAllSessions(S) == S.per_session

\* Only the latest referenced session is kept.
RetainLatestSession(S) ==
    [s \in Sessions |->
        IF s \in ReferencedSessions(S) /\ \A t \in ReferencedSessions(S) : t <= s
        THEN S.per_session[s] ELSE "none"]

\* The sessions handle_deactivate_leaves keeps.
RetainSessions(S) ==
    [s \in Sessions |-> IF s \in ReferencedSessions(S) THEN S.per_session[s] ELSE "none"]

\* The maximum of a non-empty set of session indices.
LastSession(ss) == CHOOSE s \in ss : \A t \in ss : t <= s

\* The cached topologies of the referenced sessions only.
RetainReferencedTopologies(S) ==
    {s \in S.unused_topologies : s \in ReferencedSessions(S)}

\* The cached topologies handle_deactivate_leaves keeps.
RetainTopologies(S) ==
    {s \in S.unused_topologies :
        s \in ReferencedSessions(S) \/ s = LastSession(S.unused_topologies)}

\* The elements of a sequence.
Range(seq) == {seq[i] : i \in 1..Len(seq)}

\* handle_deactivate_leaves collecting the referenced sessions before it
\* removes the pruned relay parents.
handle_deactivate_leaves_early(S, leaves) ==
    LET S1 == DeactivateAll(S, leaves)
        S2 == [S1 EXCEPT !.candidates = on_deactivate_leaves(@, Range(leaves),
                            {h \in Hashes : HasRelayParentState(S1, h)})]
    IN [WithSessions(S2, [s \in Sessions |->
                            IF s \in ReferencedSessions(S) THEN S2.per_session[s]
                            ELSE "none"])
        EXCEPT !.unused_topologies = RetainTopologies(S2)]

\* handle_deactivate_leaves
handle_deactivate_leaves(S, leaves) ==
    LET S1 == DeactivateAll(S, leaves)
        S2 == [S1 EXCEPT !.candidates = on_deactivate_leaves(@, Range(leaves),
                            {h \in Hashes : HasRelayParentState(S1, h)})]
    IN [WithSessions(S2, RetainSessions(S2))
        EXCEPT !.unused_topologies = RetainTopologies(S2)]

\* OverseerSignal::ActiveLeaves with an activated leaf; outcomes gives the
\* end of the chain-state queries of each relay parent that is attempted.
ActiveLeaves(L, Members) ==
    \E leaf \in L, activated \in BOOLEAN, outcomes \in [Hashes -> QueryOutcomes],
       member \in Members :
        /\ leaf \notin implicit_view
        /\ \A h \in Hashes :
              (~activated \/ HasRelayParentState(State, h)
                    \/ h \notin all_allowed_relay_parents(implicit_view \cup {leaf}))
                => outcomes[h] = "ok"
        /\ ~activated => ~member
        /\ Commit(handle_active_leaves_update(State, leaf, activated, outcomes, member),
                  [name |-> "ActiveLeaves", leaf |-> leaf, activated |-> activated,
                   outcomes |-> outcomes, member |-> member])

\* OverseerSignal::ActiveLeaves with deactivated leaves
DeactivateLeaves(Ls) ==
    \E leaves \in Ls :
        Commit(handle_deactivate_leaves(State, leaves),
               [name |-> "DeactivateLeaves", leaves |-> leaves])

\* NetworkBridgeEvent::NewGossipTopology for a session of Ss
NewGossipTopologyFor(Ss) ==
    \E s \in Ss :
        Commit(new_gossip_topology(State, s),
               [name |-> "NewGossipTopology", session |-> s])

\* NetworkBridgeEvent::PeerViewChange to a view of Views
PeerViewChangeTo(P, Views) ==
    \E p \in P, view \in Views :
        /\ peers[p].connected
        /\ view # peers[p].view
        /\ Commit(handle_peer_view_update(State, p, view),
                  [name |-> "PeerViewChange", peer |-> p, view |-> view])

\* The state of a node that has activated no leaf yet, with the peers of P
\* connected.
InitNoLeafAs(P, role) ==
    /\ peers = [p \in PeerIds |->
            IF p \in P THEN [ConnectedPeer(p) EXCEPT !.view = {}, !.implicit_view = {}]
            ELSE Disconnected]
    /\ authorities = [a \in AuthorityIds |->
            IF \E p \in P : AnnouncedAuthority(p) = a
            THEN CHOOSE p \in P : AnnouncedAuthority(p) = a
            ELSE NoPeer]
    /\ implicit_view = {}
    /\ per_session = [s \in Sessions |-> "none"]
    /\ unused_topologies = {}
    /\ keystore = role
    /\ relay_parents = {}
    /\ per_relay_parent = NoRelayParentState
    /\ candidates = [c \in CandidateHashes |-> NoCandidate]
    /\ request_manager = <<>>
    /\ response_manager = {}
    /\ reputation = <<>>
    /\ network = <<>>
    /\ backing = <<>>
    /\ result = "Ok"
    /\ event = [name |-> "Init"]
    /\ InitResponder
    /\ delivered = [once |-> {}, again |-> {}]
    /\ rewarded = [first |-> {}, again |-> {}]
    /\ forwarded = [once |-> {}, again |-> {}]
    /\ topologies = {}
    /\ events = 0

\* The state of a node with the keys of an active validator that has
\* activated no leaf yet.
InitNoLeaf(P) == InitNoLeafAs(P, "active")

\* The run is within its bound of n events.
Within(n) == events < n

\* A response carrying the receipt of c and the statements stmts.
Data(c, stmts) == [kind |-> "data", c |-> c, stmts |-> stmts]

\* A correctly signed statement of validator v inside a response.
Signed(v, k, c) == [v |-> v, st |-> Stmt(k, c), sig |-> TRUE]

\* A failed request: a network error or a timeout.
Failed == [kind |-> "error", c |-> "c1", stmts |-> {}]

(***************************************************************************)
(* Seconding: the local validator and the validators 1 and 2 behind the    *)
(* connected peers pA and pB second the candidates c1 and c2 of the local  *)
(* group's para; the claim queue assigns the para once (limit 1).          *)
(***************************************************************************)

ClusterPeers == {"pA", "pB"}

ClusterCandidates == {"c1", "c2"}

SecondingResponses ==
    {Failed,
     Data("c1", {Signed(2, "Seconded", "c1")}),
     Data("c1", {Signed(1, "Seconded", "c1"), Signed(2, "Valid", "c1")})}

MaxSecondingEvents == 5

InitSeconding == InitWith(ClusterPeers, "active", 1, {}, FALSE)

NextSeconding ==
    \/ Within(MaxSecondingEvents) /\ Share(ClusterCandidates, {TRUE})
    \/ Within(MaxSecondingEvents)
          /\ IncomingStatement(ClusterPeers, {RP}, {1, 2}, ClusterCandidates, {TRUE})
    \/ Within(MaxSecondingEvents) /\ DispatchRequests
    \/ Within(MaxSecondingEvents) /\ Response(SecondingResponses, {TRUE})
    \/ Within(MaxSecondingEvents) /\ RetryRequest

SpecSeconding == InitSeconding /\ [][NextSeconding]_vars

\* The seconding limit of validator v at RP: the claim-queue assignments
\* of its group.
SecondingLimit(v) ==
    IF by_validator_index(v) = 0 THEN per_relay_parent.assignments ELSE 1

Charged(rep) == \E i \in 1..Len(reputation) : reputation[i].rep = rep

StatementMessages == {i \in 1..Len(network) : network[i].type = "Statement"}

\* C10: the first-reporter benefit of a (validator, statement) at the relay
\* parent is awarded at most once over any sequence of incoming statements;
\* a later delivery of a statement the store already holds earns no benefit
\* but BENEFIT_VALID_STATEMENT, and nothing is circulated or handed to
\* backing for it.
C10_FirstReporterOnce ==
    /\ [](rewarded.again = {})
    /\ [][(/\ event'.name = "Statement"
           /\ validator_statement(per_relay_parent.statement_store,
                                  event'.v, event'.st))
          => /\ \A i \in 1..Len(reputation') :
                    reputation'[i].rep[1] \in {"BenefitMajorFirst", "BenefitMajor", "BenefitMinor"}
                        => reputation'[i] = [peer |-> event'.peer,
                                             rep |-> BENEFIT_VALID_STATEMENT]
             /\ network' = <<>>
             /\ backing' = <<>>
             /\ per_relay_parent'.statement_store = per_relay_parent.statement_store]_vars

\* pB delivers a statement that pA was rewarded for as the first reporter.
C10_LaterDelivery ==
    /\ event.name = "Statement"
    /\ event.peer = "pB"
    /\ SignedStmt(event.v, event.st) \in rewarded.first
    /\ reputation = <<[peer |-> "pB", rep |-> BENEFIT_VALID_STATEMENT]>>

(***************************************************************************)
(* Confirmation: candidates are confirmed by a local Seconded statement or *)
(* by the response to a request, being members of the fragment chain or    *)
(* not, and confirmed again afterwards.                                    *)
(***************************************************************************)

ConfirmPeers == {"pA"}

MaxConfirmEvents == 5

InitConfirm == InitWith(ConfirmPeers, "active", 1, {}, FALSE)

NextConfirm ==
    \/ Within(MaxConfirmEvents) /\ Share(ClusterCandidates, BOOLEAN)
    \/ Within(MaxConfirmEvents)
          /\ IncomingStatement(ConfirmPeers, {RP}, {1, 2}, ClusterCandidates, {TRUE})
    \/ Within(MaxConfirmEvents) /\ DispatchRequests
    \/ Within(MaxConfirmEvents) /\ Response(SecondingResponses, BOOLEAN)
    \/ Within(MaxConfirmEvents) /\ RetryRequest

SpecConfirm == InitConfirm /\ [][NextConfirm]_vars

\* The event ev attempts to confirm the candidate c.
Confirms(ev, c) ==
    \/ ev.name = "Share" /\ ev.st = Stmt("Seconded", c)
    \/ ev.name = "Response" /\ ev.id.c = c

\* C4: a confirmed candidate stays confirmed with the same group (its
\* receipt is fixed by its hash), and an event that attempts to confirm it
\* again leaves its entry as it is and has no post-confirmation effect: no
\* reputation change for an advertisement, no request removed, nothing
\* handed to backing.
C4_ConfirmedOnce ==
    [][\A c \in CandidateHashes :
          is_confirmed(candidates, c)
          => /\ is_confirmed(candidates', c)
             /\ candidates'[c].group = candidates[c].group
             /\ Confirms(event', c)
                => /\ candidates'[c] = candidates[c]
                   /\ ~\E i \in 1..Len(reputation') :
                          reputation'[i].rep = COST_INACCURATE_ADVERTISEMENT
                   /\ DOMAIN request_manager' = DOMAIN request_manager
                   /\ backing' = <<>>]_vars

\* The local validator seconds c1, a member of the fragment chain, after a
\* response confirmed c1 as no member: the entry is still not importable.
C4_Reconfirmed ==
    /\ event.name = "Share"
    /\ event.st = Stmt("Seconded", "c1")
    /\ event.member
    /\ result = "Ok"
    /\ is_confirmed(candidates, "c1")
    /\ candidates["c1"].importable_under = {}

(***************************************************************************)
(* Catch-up: the cluster peers pA and pB connect, disconnect and change    *)
(* their views while statements about c1 and c2 are shared, received,      *)
(* requested and answered.                                                 *)
(***************************************************************************)

CatchUpResponses == {Data("c1", {})}

MaxCatchUpEvents == 7

InitCatchUp == InitWith({"pA"}, "active", 1, {}, FALSE)

NextCatchUp ==
    \/ Within(MaxCatchUpEvents) /\ PeerConnected(ClusterPeers)
    \/ Within(MaxCatchUpEvents) /\ PeerDisconnected(ClusterPeers)
    \/ Within(MaxCatchUpEvents) /\ PeerViewChange(ClusterPeers)
    \/ Within(MaxCatchUpEvents) /\ Share({"c1"}, {TRUE})
    \/ Within(MaxCatchUpEvents)
          /\ IncomingStatement({"pA"}, {RP}, {1}, ClusterCandidates, {TRUE})
    \/ Within(MaxCatchUpEvents) /\ DispatchRequests
    \/ Within(MaxCatchUpEvents) /\ Response(CatchUpResponses, {TRUE})
    \/ Within(MaxCatchUpEvents) /\ RetryRequest
    \/ Within(MaxCatchUpEvents)
          /\ AnswerRequest(ClusterPeers, {"c1"}, {BlankFilter(3)})

SpecCatchUp == InitCatchUp /\ [][NextCatchUp]_vars

\* C2 as claimed: no (originator, statement) is sent to a cluster peer a
\* second time, be it by circulation, by catch-up or in a response.
C2_SentAtMostOnce == delivered.again = {}

\* The statements pending for the cluster validator v.
PendingFor(v) == cluster_pending_statements_for(per_relay_parent.cluster_tracker, v)

\* C2, amended: no (originator, statement) is sent to a cluster peer as a
\* Statement message (circulation or catch-up) after it was sent to that
\* peer before, as a Statement or in a response; and what is noted as sent
\* to a cluster validator is not pending for it.
C2_StatementSentAtMostOnce ==
    /\ \A d \in delivered.again : d.via = "Response"
    /\ \A v \in per_relay_parent.cluster_tracker.validators :
          \A x \in PendingFor(v) :
             Specific("Out", x.st, x.v) \notin Knows(per_relay_parent.cluster_tracker, v)

\* A peer that was sent a statement before announces the relay parent in
\* its view again: the catch-up sends it nothing.
C2_RepeatedCatchUp ==
    /\ event.name = "PeerViewChange"
    /\ event.view = {RP}
    /\ \E d \in delivered.once : d.p = event.peer
    /\ network = <<>>

\* C3: every Statement message sent to a cluster member is about a
\* confirmed candidate, nothing is noted as sent to a cluster member about
\* an unconfirmed candidate, and a statement pending for a cluster member
\* stays pending while its candidate is unconfirmed, unless that member
\* itself delivers the statement.
C3_UnconfirmedNotSent ==
    /\ [](/\ \A i \in StatementMessages : is_confirmed(candidates, network[i].st.c)
          /\ \A v \in per_relay_parent.cluster_tracker.validators :
                \A t \in Knows(per_relay_parent.cluster_tracker, v) :
                   t.tag = "Out" => is_confirmed(candidates, t.c))
    /\ [][\A v \in per_relay_parent.cluster_tracker.validators :
            \A x \in PendingFor(v) :
               ~is_confirmed(candidates', x.st.c)
               => \/ x \in cluster_pending_statements_for(
                                per_relay_parent'.cluster_tracker, v)
                  \/ Specific("In", x.st, x.v)
                         \in Knows(per_relay_parent'.cluster_tracker, v)]_vars

\* pB announces the relay parent while Seconded(c1) of validator 1 is
\* pending for validator 2 and c1 is unconfirmed: nothing is sent.
C3_CatchUpUnconfirmed ==
    /\ event.name = "PeerViewChange"
    /\ event.peer = "pB"
    /\ event.view = {RP}
    /\ SignedStmt(1, Stmt("Seconded", "c1")) \in PendingFor(2)
    /\ ~is_confirmed(candidates, "c1")
    /\ network = <<>>

(***************************************************************************)
(* The grid: the peer pC (validator 3) advertises candidates of the groups *)
(* 1 and 2 in manifests, the local node requests and confirms them, and    *)
(* advertises the backed candidate c1 of its own group to validator 3,     *)
(* which acknowledges.  Validator 4 may be disabled at the relay parent.   *)
(***************************************************************************)

Manifest(c, para, g, parent, know) ==
    [c |-> c, para |-> para, group |-> g, parent |-> parent, know |-> know]

\* Manifests of pC: c3 as it is, c3 with a wrong parent head, c3 with one
\* vote only, c3 as a candidate of group 2, and c1 as a candidate of group 1.
GridManifests ==
    {Manifest("c3", ParaB, 1, "h1", Knowledge(2, {1}, {2})),
     Manifest("c3", ParaB, 1, "h2", Knowledge(2, {1}, {2})),
     Manifest("c3", ParaB, 1, "h1", Knowledge(2, {1}, {})),
     Manifest("c3", ParaC, 2, "h1", Knowledge(2, {1}, {2})),
     Manifest("c1", ParaB, 1, "h1", Knowledge(2, {1}, {2}))}

\* Acknowledgements of pC for c1: without and with Valid of validator 1.
GridAcknowledgements == {Knowledge(3, {1}, {3}), Knowledge(3, {1}, {2})}

GridResponses ==
    {Failed,
     Data("c3", {Signed(3, "Seconded", "c3"), Signed(4, "Valid", "c3")})}

MaxGridEvents == 6

InitGrid ==
    \E disabled \in {{}, {4}} : InitWith({"pA", "pC"}, "active", 1, disabled, TRUE)

NextGrid ==
    \/ Within(MaxGridEvents) /\ IncomingManifest({"pC"}, {RP}, GridManifests)
    \/ Within(MaxGridEvents)
          /\ IncomingAcknowledgement({"pC"}, {"c1"}, GridAcknowledgements)
    \/ Within(MaxGridEvents) /\ Share({"c1"}, {TRUE})
    \/ Within(MaxGridEvents)
          /\ IncomingStatement({"pA"}, {RP}, {1}, {"c1"}, {TRUE})
    \/ Within(MaxGridEvents) /\ Backed({"c1", "c3"}, {TRUE})
    \/ Within(MaxGridEvents) /\ PeerViewChange({"pC"})
    \/ Within(MaxGridEvents) /\ DispatchRequests
    \/ Within(MaxGridEvents) /\ Response(GridResponses, {TRUE})
    \/ Within(MaxGridEvents) /\ RetryRequest

SpecGrid == InitGrid /\ [][NextGrid]_vars

\* The number of times the last event charged peer p the cost rep.
ChargeCount(reps, p, rep) ==
    Cardinality({i \in 1..Len(reps) : reps[i] = [peer |-> p, rep |-> rep]})

\* The claim cl about candidate c agrees with the canonical group g and
\* the receipt of c.
Accurate(cl, c, g) ==
    /\ cl.rp = Receipt(c).relay_parent
    /\ cl.group = g
    /\ cl.has_parent => cl.parent = Receipt(c).parent /\ cl.para = Receipt(c).para

\* C5: when a candidate is confirmed, a peer whose advertisements of it all
\* agree with the canonical group and parent head is not charged
\* COST_INACCURATE_ADVERTISEMENT, and a peer with an advertisement that
\* differs in group or parent is charged it exactly once.
C5_InaccurateChargedOnce ==
    [][\A c \in CandidateHashes :
          (~is_confirmed(candidates, c) /\ is_confirmed(candidates', c))
          => \A p \in PeerIds :
                LET mine == {cl \in candidates[c].claims : cl.peer = p}
                    n == ChargeCount(reputation', p, COST_INACCURATE_ADVERTISEMENT)
                IN /\ (\A cl \in mine : Accurate(cl, c, candidates'[c].group)) => n = 0
                   /\ (\E cl \in mine : ~Accurate(cl, c, candidates'[c].group)) => n = 1]_vars

\* The response confirms c3, which pC advertised with the parent head h2.
C5_WrongParentCharged ==
    /\ event.name = "Response"
    /\ is_confirmed(candidates, "c3")
    /\ ChargeCount(reputation, "pC", COST_INACCURATE_ADVERTISEMENT) = 1

\* The seats of group g that are disabled at the relay parent.
DisabledSeats(g) == {i \in 1..Len(GroupSeq(g)) : GroupSeq(g)[i] \in per_relay_parent.disabled}

\* The last event left candidates, requests and trackers as they were and
\* sent nothing.
NothingRecorded ==
    /\ candidates' = candidates
    /\ request_manager' = request_manager
    /\ per_relay_parent' = per_relay_parent
    /\ network' = <<>>

\* The Full manifest of event ev comes from a grid sender of its group, for
\* a para of the group, with a bitmap of the group's size.
WellFormed(ev) ==
    /\ ev.name = "Manifest"
    /\ ev.rp = RP
    /\ ev.group \in groups_per_para(ev.para)
    /\ \E v \in receiving(ev.group) : discovery_keys(v) \in peers[ev.peer].ids
    /\ ev.know.len = Len(GroupSeq(ev.group))

Votes(ev) == (ev.know.seconded \cup ev.know.validated) \ DisabledSeats(ev.group)

\* C6: a Full manifest whose votes, the disabled validators left out, are
\* below the backing threshold of the claimed group is rejected with
\* COST_INSUFFICIENT_MANIFEST, and a sufficient manifest of a sender whose
\* accepted manifest for the candidate claimed another group with
\* COST_CONFLICTING_MANIFEST; neither leaves an advertisement or a request.
C6_ManifestRejected ==
    [][WellFormed(event')
       => /\ Cardinality(Votes(event')) < backing_threshold(event'.group)
             => /\ reputation' = <<[peer |-> event'.peer,
                                    rep |-> COST_INSUFFICIENT_MANIFEST]>>
                /\ NothingRecorded
          /\ (/\ Cardinality(Votes(event')) >= backing_threshold(event'.group)
              /\ \E m \in per_relay_parent.grid_tracker.received :
                    /\ discovery_keys(m.v) \in peers[event'.peer].ids
                    /\ m.c = event'.c
                    /\ m.group # event'.group)
             => /\ reputation' = <<[peer |-> event'.peer,
                                    rep |-> COST_CONFLICTING_MANIFEST]>>
                /\ NothingRecorded]_vars

\* pC advertises c3 as a candidate of group 2 after its manifest of c3 as
\* a candidate of group 1 was accepted.
C6_ConflictingGroup ==
    /\ event.name = "Manifest"
    /\ event.c = "c3"
    /\ event.group = 2
    /\ \E m \in per_relay_parent.grid_tracker.received :
          m.v = 3 /\ m.c = "c3" /\ m.group = 1
    /\ reputation = <<[peer |-> "pC", rep |-> COST_CONFLICTING_MANIFEST]>>

\* The statements that the messages msgs deliver to peer p as Statement
\* messages.
SentStatements(msgs, p) ==
    {SignedStmt(msgs[i].v, msgs[i].st) :
        i \in {j \in 1..Len(msgs) : msgs[j].type = "Statement" /\ msgs[j].to = p}}

\* The stored statements of group g about candidate c.
StoredAbout(store, g, c) == {x \in store.known : x.st.c = c /\ x.v \in GroupSet(g)}

\* The statements delivered to peer p so far.
DeliveredTo(p) == {SignedStmt(d.v, d.st) : d \in {e \in delivered.once : e.p = p}}

\* The stored statements about c that the bitmap know lacks and that were
\* not delivered to p before.
FollowUps(store, g, c, know, p) ==
    (StoredAbout(store, g, c) \ decompose_statement_filter(g, c, know)) \ DeliveredTo(p)

\* The messages msgs hold a message of the given type to peer p.
Sends(msgs, type, p) ==
    \E i \in 1..Len(msgs) : msgs[i].type = type /\ msgs[i].to = p

\* C7: when the grid peer pC acknowledges a manifest, or its manifest of
\* a backed candidate is acknowledged, the Statement messages sent to it
\* are exactly the stored statements of the candidate's group that its
\* bitmap lacks and that it was not sent before; every statement sent to
\* it is recorded in the grid tracker as known to validator 3 and is no
\* longer pending; and no statement is sent to it a second time.
C7_FollowUpsExactlyOnce ==
    /\ [](/\ \A d \in delivered.again : d.p # "pC"
          /\ \A x \in SentStatements(network, "pC") :
                LET kb == per_relay_parent.grid_tracker.backed[x.st.c]
                IN /\ kb.present
                   /\ FilterContains(kb.mutual[3].r, SeatOf(kb.group, x.v), x.st.kind)
                   /\ [v |-> 3, o |-> x.v, st |-> x.st]
                         \notin per_relay_parent.grid_tracker.pending_statements)
    /\ [][/\ (event'.name = "Ack" /\ event'.peer = "pC" /\ reputation' = <<>>)
             => SentStatements(network', "pC")
                   = FollowUps(per_relay_parent'.statement_store,
                               candidates[event'.c].group, event'.c,
                               event'.know, "pC")
          /\ (event'.name = "Manifest" /\ event'.peer = "pC"
                 /\ Sends(network', "Ack", "pC"))
             => SentStatements(network', "pC")
                   = FollowUps(per_relay_parent'.statement_store,
                               event'.group, event'.c, event'.know, "pC")]_vars

\* pC acknowledges the manifest of c1 with a bitmap that lacks Valid of
\* validator 1, which is sent to it as a follow-up.
C7_FollowUpSent ==
    /\ event.name = "Ack"
    /\ event.know = Knowledge(3, {1}, {3})
    /\ SentStatements(network, "pC") = {SignedStmt(1, Stmt("Valid", "c1"))}

\* The grid tracker reports candidate c as already known on a manifest of
\* validator v: c is backed and v was sent no manifest or acknowledgement.
ReportsKnown(grid, v, c) ==
    grid.backed[c].present /\ ~has_sent_manifest_to(grid.backed[c], v)

\* C8: a Full manifest that passes handle_incoming_manifest_common is
\* acknowledged, without a request, when the grid tracker reports the
\* candidate as known; else, when the candidate is unconfirmed, a request
\* for (relay parent, candidate, claimed group) exists afterwards and
\* names the sending peer, and nothing is sent; else nothing is sent and
\* no request is created.
C8_ManifestOutcome ==
    [][(event'.name = "Manifest" /\ reputation' = <<>>)
       => LET c == event'.c
              id == CandidateIdentifier(event'.rp, c, event'.group)
          IN IF ReportsKnown(per_relay_parent.grid_tracker,
                             authority_lookup(AnnouncedAuthority(event'.peer)), c)
             THEN /\ Sends(network', "Ack", event'.peer)
                  /\ request_manager' = request_manager
             ELSE IF ~is_confirmed(candidates, c)
             THEN /\ id \in DOMAIN request_manager'
                  /\ event'.peer \in SeqSet(request_manager'[id].known_by)
                  /\ network' = <<>>
             ELSE /\ network' = <<>>
                  /\ request_manager' = request_manager]_vars

\* pC repeats its manifest of c3 after the response confirmed c3 and
\* before c3 is backed: nothing is sent, no request exists.
C8_ConfirmedNotBacked ==
    /\ event.name = "Manifest"
    /\ reputation = <<>>
    /\ is_confirmed(candidates, event.c)
    /\ ~per_relay_parent.grid_tracker.backed[event.c].present
    /\ network = <<>>
    /\ request_manager = <<>>

(***************************************************************************)
(* SpecRoles: statements arrive from the cluster peer pA and from the grid *)
(* peer pC while the local node is an active validator, an inactive one or *)
(* none; pC advertises c3 of group 1, which the local node requests,       *)
(* confirms and learns to be backed.                                       *)
(***************************************************************************)

RoleManifests == {Manifest("c3", ParaB, 1, "h1", Knowledge(2, {1}, {2}))}

RoleResponses ==
    {Data("c3", {Signed(3, "Seconded", "c3"), Signed(4, "Valid", "c3")})}

\* The originators of the incoming statements: a member of the local group,
\* a member of group 1 and an index outside the validator set.
RoleOriginators == {1, 4, UnknownValidator}

MaxRoleEvents == 5

\* The roles PerSessionState::new and supply_topology leave the node in: an
\* inactive validator has got its topology.
InitRoles ==
    \E role \in {<<"active", TRUE>>, <<"inactive", TRUE>>,
                 <<"none", TRUE>>, <<"none", FALSE>>},
       disabled \in {{}, {4}} :
        InitWith({"pA", "pC"}, role[1], 1, disabled, role[2])

NextRoles ==
    \/ Within(MaxRoleEvents) /\ IncomingManifest({"pC"}, {RP}, RoleManifests)
    \/ Within(MaxRoleEvents) /\ DispatchRequests
    \/ Within(MaxRoleEvents) /\ Response(RoleResponses, {TRUE})
    \/ Within(MaxRoleEvents) /\ Backed({"c3"}, {TRUE})
    \/ Within(MaxRoleEvents)
          /\ IncomingStatement({"pA", "pC"}, {RP, RPUnknown}, RoleOriginators,
                               {"c1", "c3"}, BOOLEAN)

SpecRoles == InitRoles /\ [][NextRoles]_vars

\* The validators whose authority id the peer announced.
ValidatorsOf(p) == {v \in Validators : discovery_keys(v) \in peers[p].ids}

\* The peer controls a validator of the local group, the local node is an
\* active validator and the originator is of its group.
ViaCluster(p, o) ==
    /\ per_relay_parent.local_validator = "active"
    /\ by_validator_index(o) = by_validator_index(LocalIndex)
    /\ ValidatorsOf(p) \cap GroupSet(by_validator_index(LocalIndex)) # {}

\* The peer controls a validator that advertised the statement on the grid.
ViaGrid(p, o, st) ==
    ValidatorsOf(p) \cap direct_statement_providers(per_relay_parent.grid_tracker, o, st) # {}

\* What the cluster tracker has received, and what the grid tracker has
\* received directly about candidate c.
ClusterReceived(prs) ==
    [v \in prs.cluster_tracker.validators |->
        {t \in prs.cluster_tracker.knowledge[v] : t.tag = "In"}]

GridReceived(prs, c) ==
    [v \in Validators |-> prs.grid_tracker.backed[c].mutual[v].rc]

\* The last event charged its peer rep and did nothing else.
OnlyCharged(rep) ==
    /\ reputation' = <<[peer |-> event'.peer, rep |-> rep]>>
    /\ per_relay_parent' = per_relay_parent
    /\ candidates' = candidates
    /\ request_manager' = request_manager

\* The dispatch of handle_incoming_statement for the statement of the last
\* event: the cluster, else the grid, else the charge.
StatementDispatch ==
    LET p == event'.peer
        o == event'.v
        st == event'.st
    IN IF ViaCluster(p, o)
       THEN /\ GridReceived(per_relay_parent', st.c) = GridReceived(per_relay_parent, st.c)
            /\ \/ \E rep \in {COST_EXCESSIVE_SECONDED,
                             COST_UNEXPECTED_STATEMENT_CLUSTER_REJECTED,
                             COST_UNEXPECTED_STATEMENT_NOT_IN_GROUP,
                             COST_INVALID_SIGNATURE} : OnlyCharged(rep)
               \/ \E v \in ValidatorsOf(p) :
                     Specific("In", st, o) \in Knows(per_relay_parent'.cluster_tracker, v)
       ELSE IF ViaGrid(p, o, st)
       THEN /\ ClusterReceived(per_relay_parent') = ClusterReceived(per_relay_parent)
            /\ \/ OnlyCharged(COST_INVALID_SIGNATURE)
               \/ OnlyCharged(BENEFIT_VALID_STATEMENT)
               \/ /\ reputation' # <<>>
                  /\ reputation'[1].rep \in {BENEFIT_VALID_STATEMENT,
                                            BENEFIT_VALID_STATEMENT_FIRST}
       ELSE OnlyCharged(COST_UNEXPECTED_STATEMENT_INVALID_SENDER)

\* C9 as stated: every statement at a known relay parent goes to the
\* cluster first, else to the grid providers, and a peer that is neither is
\* charged COST_UNEXPECTED_STATEMENT_INVALID_SENDER with no state change.
C9_InvalidSenderCharged ==
    [][(event'.name = "Statement" /\ event'.rp = RP) => StatementDispatch]_vars

\* C9: a statement at a known relay parent whose originator is not disabled
\* and belongs to a group, received while the local node is a validator, is
\* tried against the cluster when the node is active and the peer controls
\* an allowed cluster sender, otherwise against the grid providers; a peer
\* that is neither is charged COST_UNEXPECTED_STATEMENT_INVALID_SENDER and
\* the store, the trackers, the candidates and the requests stay as they
\* were.  Whatever the originator and the role, a statement whose peer is
\* neither changes none of them.
C9_StatementDispatch ==
    [][(event'.name = "Statement" /\ event'.rp = RP)
       => /\ (/\ event'.v \notin per_relay_parent.disabled
              /\ per_relay_parent.local_validator # "none"
              /\ by_validator_index(event'.v) # NoGroup)
             => StatementDispatch
          /\ (~ViaCluster(event'.peer, event'.v)
                /\ ~ViaGrid(event'.peer, event'.v, event'.st))
             => /\ per_relay_parent' = per_relay_parent
                /\ candidates' = candidates
                /\ request_manager' = request_manager]_vars

\* pA, which is no grid provider, delivers a statement of validator 4 about
\* the backed candidate c3 that pC advertised, and is charged.
C9_NeitherSender ==
    /\ event.name = "Statement"
    /\ event.peer = "pA"
    /\ event.v = 4
    /\ event.st.c = "c3"
    /\ per_relay_parent.grid_tracker.backed["c3"].present
    /\ direct_statement_providers(per_relay_parent.grid_tracker, 4, event.st) = {3}
    /\ reputation = <<[peer |-> "pA", rep |-> COST_UNEXPECTED_STATEMENT_INVALID_SENDER]>>

(***************************************************************************)
(* SpecBacking: statements about c1 and c2 of the local group are shared,  *)
(* received from pA and fetched in responses while the candidates are      *)
(* members of the fragment chain or not; candidate backing reports a       *)
(* backed candidate, which updates the fragment chain.                     *)
(***************************************************************************)

MaxBackingEvents == 6

InitBacking == InitWith({"pA"}, "active", 1, {}, FALSE)

NextBacking ==
    \/ Within(MaxBackingEvents) /\ Share(ClusterCandidates, BOOLEAN)
    \/ Within(MaxBackingEvents)
          /\ IncomingStatement({"pA"}, {RP}, {1, 2}, ClusterCandidates, {TRUE})
    \/ Within(MaxBackingEvents) /\ DispatchRequests
    \/ Within(MaxBackingEvents) /\ Response(SecondingResponses, BOOLEAN)
    \/ Within(MaxBackingEvents) /\ Backed(ClusterCandidates, BOOLEAN)

SpecBacking == InitBacking /\ [][NextBacking]_vars

\* C11: every statement handed to candidate backing is about a candidate
\* that is confirmed and importable, comes from a validator of the
\* candidate's group, which is a group expected for the candidate's para at
\* the relay parent, and no (validator, statement) is handed over twice.
C11_ForwardedOnce ==
    /\ [](forwarded.again = {})
    /\ [][\A i \in 1..Len(backing') :
            LET c == backing'[i].st.c
            IN /\ is_confirmed(candidates', c)
               /\ candidates'[c].importable_under # {}
               /\ candidates'[c].group \in groups_per_para(Receipt(c).para)
               /\ by_validator_index(backing'[i].v) = candidates'[c].group]_vars

\* c1 is reported as backed and the fragment-chain update makes its child
\* c2 importable: the statement of validator 1 about c2, received while c2
\* was confirmed but not importable, is handed over.
C11_ForwardAfterUpdate ==
    /\ event.name = "Backed"
    /\ event.c = "c1"
    /\ event.member
    /\ backing = <<SignedStmt(1, Stmt("Valid", "c2"))>>

(***************************************************************************)
(* SpecShare: candidate backing shares statements with any relay parent,   *)
(* signer and candidate while the node is an active validator (with one or *)
(* two assignments of its para) or an inactive one, and pA delivers and    *)
(* answers statements about c1.                                            *)
(***************************************************************************)

MaxShareEvents == 4

InitShare ==
    \E role \in {<<"active", FALSE>>, <<"active", TRUE>>, <<"inactive", TRUE>>},
       n \in {1, 2} :
        InitWith({"pA"}, role[1], n, {}, role[2])

NextShare ==
    \/ Within(MaxShareEvents)
          /\ ShareAs({RP, RPUnknown}, {LocalIndex, 1}, CandidateHashes, {TRUE})
    \/ Within(MaxShareEvents)
          /\ IncomingStatement({"pA"}, {RP}, {1}, {"c1"}, {TRUE})
    \/ Within(MaxShareEvents) /\ DispatchRequests
    \/ Within(MaxShareEvents) /\ Response(SecondingResponses, {TRUE})

SpecShare == InitShare /\ [][NextShare]_vars

\* C13: a share_local_statement that returns an error leaves the statement
\* store, the trackers, the candidates and the request manager as they were
\* and sends nothing; and each of the listed causes makes it return one.
C13_FailedShareAborted ==
    [][event'.name = "Share"
       => /\ result' = "InvalidShare"
             => /\ per_relay_parent' = per_relay_parent
                /\ candidates' = candidates
                /\ request_manager' = request_manager
                /\ response_manager' = response_manager
                /\ network' = <<>>
                /\ backing' = <<>>
                /\ reputation' = <<>>
          /\ (\/ event'.rp # RP
              \/ per_relay_parent.local_validator # "active"
              \/ event'.v # LocalIndex
              \/ /\ event'.st.kind = "Seconded"
                 /\ seconded_count(per_relay_parent.statement_store, LocalIndex)
                       >= per_relay_parent.assignments
              \/ Receipt(event'.st.c).para # ParaA
              \/ Receipt(event'.st.c).relay_parent # event'.rp
              \/ event'.st.kind = "Valid" /\ ~is_confirmed(candidates, event'.st.c)
              \/ SignedStmt(LocalIndex, event'.st) \in per_relay_parent.statement_store.known)
             => result' = "InvalidShare"]_vars

\* With two assignments the local validator seconds c1 a second time: the
\* sanity checks pass, the candidate is confirmed already and the store
\* reports the statement as known.
C13_RedundantSeconded ==
    /\ event.name = "Share"
    /\ event.rp = RP
    /\ event.v = LocalIndex
    /\ event.st = Stmt("Seconded", "c1")
    /\ per_relay_parent.assignments = 2
    /\ seconded_count(per_relay_parent.statement_store, LocalIndex) = 1
    /\ result = "InvalidShare"

(***************************************************************************)
(* SpecCirculate: the peer pA connects with the authority ids of one or    *)
(* two validators (of the local group, or of the local group and the       *)
(* grid), learns the relay parent, and statements about c1 are shared and  *)
(* received; c1 is reported as backed and pA acknowledges its manifest.    *)
(***************************************************************************)

CirculateIds ==
    {{discovery_keys(1)},
     {discovery_keys(1), discovery_keys(2)},
     {discovery_keys(1), discovery_keys(3)}}

MaxCirculateEvents == 7

InitCirculate == InitWith({}, "active", 1, {}, TRUE)

NextCirculate ==
    \/ Within(MaxCirculateEvents) /\ PeerConnectedAs({"pA"}, CirculateIds)
    \/ Within(MaxCirculateEvents) /\ PeerViewChange({"pA"})
    \/ Within(MaxCirculateEvents) /\ Share({"c1"}, {TRUE})
    \/ Within(MaxCirculateEvents)
          /\ IncomingStatement({"pA"}, {RP}, {1}, {"c1"}, {TRUE})
    \/ Within(MaxCirculateEvents) /\ Backed({"c1"}, {TRUE})
    \/ Within(MaxCirculateEvents)
          /\ IncomingAcknowledgement({"pA"}, {"c1"}, {Knowledge(3, {1}, {2})})

SpecCirculate == InitCirculate /\ [][NextCirculate]_vars

\* C12: the Statement messages a shared or received statement is
\* circulated in go to pairwise different peers.
C12_RecipientsDistinct ==
    [][event'.name \in {"Share", "Statement"}
       => \A i, j \in 1..Len(network') :
             (/\ i # j
              /\ network'[i].type = "Statement"
              /\ network'[j].type = "Statement"
              /\ network'[i].v = network'[j].v
              /\ network'[i].st = network'[j].st)
             => network'[i].to # network'[j].to]_vars

\* The last event left the relay-parent state, the candidates and the
\* requests as they were and sent nothing.
AckDropped ==
    /\ per_relay_parent' = per_relay_parent
    /\ candidates' = candidates
    /\ request_manager' = request_manager
    /\ response_manager' = response_manager
    /\ network' = <<>>
    /\ backing' = <<>>

\* C14 as stated: an acknowledgement for a candidate that is not confirmed
\* changes neither the state nor the reputation of its sender.
C14_AckSilentlyDropped ==
    [][(event'.name = "Ack" /\ ~is_confirmed(candidates, event'.c))
       => AckDropped /\ reputation' = <<>>]_vars

\* C14: an acknowledgement for a candidate that is unknown or unconfirmed
\* changes no state and sends nothing, and its sender is charged
\* COST_UNEXPECTED_ACKNOWLEDGEMENT_UNKNOWN_CANDIDATE.
C14_AckChargedAndDropped ==
    [][(event'.name = "Ack" /\ ~is_confirmed(candidates, event'.c))
       => /\ AckDropped
          /\ reputation' = <<[peer |-> event'.peer,
                              rep |-> COST_UNEXPECTED_ACKNOWLEDGEMENT_UNKNOWN_CANDIDATE]>>]_vars

\* pC acknowledges c1 while c1 is known from a statement of pA only.
C14_AckForUnconfirmed ==
    /\ event.name = "Ack"
    /\ event.peer = "pC"
    /\ candidates[event.c].state = "Unconfirmed"
    /\ reputation = <<[peer |-> "pC",
                       rep |-> COST_UNEXPECTED_ACKNOWLEDGEMENT_UNKNOWN_CANDIDATE]>>

(***************************************************************************)
(* Leaves and sessions: the node activates and deactivates the leaves of   *)
(* the chain, topologies of both sessions arrive, and the peer pA, the     *)
(* validator 1 of the local group, sends statements about c1 under RP.     *)
(***************************************************************************)

MaxLeafEvents == 5

\* The deactivated leaves of one update, in the order of the update.
LeafSeqs == {<<RP>>, <<RPChild>>, <<RPNext>>, <<RP, RPChild>>, <<RPChild, RP>>}

InitLeaves == InitNoLeaf({"pA"})

NextLeaves ==
    \/ Within(MaxLeafEvents) /\ ActiveLeaves(Hashes, BOOLEAN)
    \/ Within(MaxLeafEvents) /\ DeactivateLeaves(LeafSeqs)
    \/ Within(MaxLeafEvents) /\ NewGossipTopologyFor(Sessions)
    \/ Within(MaxLeafEvents) /\ PeerViewChangeTo({"pA"}, {{RP}, {RPChild}})
    \/ Within(MaxLeafEvents)
          /\ IncomingStatement({"pA"}, {RP}, {1}, {"c1"}, {TRUE})
    \/ Within(MaxLeafEvents) /\ Share({"c1"}, {TRUE})

SpecLeaves == InitLeaves /\ [][NextLeaves]_vars

\* The relay parents that have a PerRelayParentState.
WithRelayParentState == {h \in Hashes : HasRelayParentState(State, h)}

\* C15: a relay parent whose chain-state query fails during a leaf
\* activation gets no PerRelayParentState while the other relay parents of
\* the batch are still activated, and every activation attempts each allowed
\* relay parent that has no state, those that failed before included: after
\* the update an allowed relay parent that had no state has one exactly when
\* its queries succeeded, and no other relay parent gains or loses a state.
C15_FailedActivationRetried ==
    [][(event'.name = "ActiveLeaves" /\ event'.activated) =>
        /\ implicit_view' = implicit_view \cup {event'.leaf}
        /\ \A h \in Hashes \ WithRelayParentState :
              h \in WithRelayParentState' <=>
                 /\ h \in all_allowed_relay_parents(implicit_view')
                 /\ event'.outcomes[h] = "ok"
        /\ WithRelayParentState \subseteq WithRelayParentState']_vars

\* The leaf RPNext is activated while RP, allowed by the active leaf RPChild,
\* has no state since an earlier failure: RP is attempted again and fails
\* again, and RPNext is activated all the same.
C15_RetriedAfterFailure ==
    /\ event.name = "ActiveLeaves" /\ event.activated
    /\ event.leaf = RPNext
    /\ event.outcomes[RP] = "late"
    /\ event.outcomes[RPNext] = "ok"
    /\ RPChild \in implicit_view
    /\ WithRelayParentState = {RPChild, RPNext}

\* A topology that arrives for a session without PerSessionState is cached.
TopologyCached(s) ==
    (event'.name = "NewGossipTopology" /\ event'.session = s /\ per_session[s] = "none")
        => s \in unused_topologies'

\* The cached topology of s stays cached while s has no PerSessionState.
StaysCached(s) == s \in unused_topologies' /\ per_session'[s] = "none"

\* A leaf activation creates the PerSessionState of s with the topology.
AppliedOnCreation(s) == event'.name = "ActiveLeaves" /\ per_session'[s] = "topology"

\* C16 as stated: a topology received for a session without PerSessionState
\* is cached, stays cached whatever happens, and is applied when a leaf
\* activation creates the PerSessionState.
C16_CachedTopologyKept ==
    [][\A s \in Sessions :
        /\ TopologyCached(s)
        /\ (s \in unused_topologies /\ per_session[s] = "none")
              => (StaysCached(s) \/ AppliedOnCreation(s))]_vars

\* C16: a topology received for a session without PerSessionState is cached
\* and is applied when a leaf activation creates the PerSessionState; until
\* then it stays cached, except that a leaf deactivation that finds the
\* topology of a later session cached may drop it.
C16_CachedTopologyApplied ==
    [][\A s \in Sessions :
        /\ TopologyCached(s)
        /\ (s \in unused_topologies /\ per_session[s] = "none")
              => \/ StaysCached(s)
                 \/ AppliedOnCreation(s)
                 \/ /\ event'.name = "DeactivateLeaves"
                    /\ \E t \in unused_topologies : t > s]_vars

\* The leaf RPNext is activated for the first time since its session lost
\* its state: the PerSessionState is created with the cached topology, while
\* the topology of the session of RP, which has no state, is still cached.
C16_AppliedFromCache ==
    /\ event.name = "ActiveLeaves" /\ event.leaf = RPNext
    /\ implicit_view = {RPNext}
    /\ per_session[NextSession] = "topology"
    /\ per_session[SessionOfRP] = "none"
    /\ unused_topologies = {SessionOfRP}

\* C17: leaf deactivation is idempotent: in the state a
\* handle_deactivate_leaves has left, the same call changes neither the
\* implicit view, per_relay_parent, per_session, the candidates, the request
\* manager nor the cached topologies.
C17_DeactivationIdempotent ==
    event.name = "DeactivateLeaves" =>
        LET T == handle_deactivate_leaves(State, event.leaves)
        IN /\ T.implicit_view = implicit_view
           /\ T.prs = per_relay_parent
           /\ T.relay_parents = relay_parents
           /\ T.per_session = per_session
           /\ T.candidates = candidates
           /\ T.request_manager = request_manager
           /\ T.unused_topologies = unused_topologies

\* The leaves RPChild and RP were deactivated in one update that left no
\* relay parent and no session, a request under RP and a cached topology.
C17_AllDeactivated ==
    /\ event.name = "DeactivateLeaves" /\ event.leaves = <<RP, RPChild>>
    /\ implicit_view = {}
    /\ WithRelayParentState = {}
    /\ \A s \in Sessions : per_session[s] = "none"
    /\ request_manager # <<>>
    /\ unused_topologies # {}

\* The sessions that have a PerSessionState.
WithSessionState == {s \in Sessions : per_session[s] # "none"}

\* C18: after handle_deactivate_leaves no relay parent that the call pruned
\* from the implicit view has a PerRelayParentState, and the sessions with
\* a PerSessionState are exactly those of the remaining
\* PerRelayParentStates.
C18_SessionsCollected ==
    [][event'.name = "DeactivateLeaves" =>
        /\ \A h \in all_allowed_relay_parents(implicit_view)
                        \ all_allowed_relay_parents(implicit_view') :
              h \notin WithRelayParentState'
        /\ WithSessionState' = ReferencedSessions(State)']_vars

\* RPNext was deactivated while the leaf RPChild keeps RP and RPChild: the
\* next session has lost its state, the session of RP keeps it.
C18_OneSessionLeft ==
    /\ event.name = "DeactivateLeaves" /\ event.leaves = <<RPNext>>
    /\ implicit_view = {RPChild}
    /\ WithRelayParentState = {RP, RPChild}
    /\ WithSessionState = {SessionOfRP}
    /\ unused_topologies = {NextSession}

\* C19: after every event the request manager holds no request for a
\* confirmed candidate.
C19_NoRequestForConfirmed ==
    \A id \in DOMAIN request_manager : ~is_confirmed(candidates, id.c)

\* The local validator seconds c1 while the request for c1 is in flight:
\* c1 is confirmed and its request is gone, the response is still awaited.
C19_ConfirmedWhileInFlight ==
    /\ event.name = "Share" /\ event.st = Stmt("Seconded", "c1")
    /\ result = "Ok"
    /\ is_confirmed(candidates, "c1")
    /\ \E r \in response_manager : r.id.c = "c1"

\* C20: after handle_deactivate_leaves the relay parent of every pending
\* request has a PerRelayParentState.
C20_NoRequestUnderPruned ==
    event.name = "DeactivateLeaves" =>
        \A id \in DOMAIN request_manager : id.rp \in WithRelayParentState

(***************************************************************************)
(* Peers and authority ids: three peers connect with authority ids that    *)
(* overlap, change them and disconnect.                                    *)
(***************************************************************************)

MaxPeerEvents == 5

PeerAuthorityIds ==
    {{}, {discovery_keys(1)}, {discovery_keys(2)},
     {discovery_keys(1), discovery_keys(2)}}

InitPeers == InitWith({}, "active", 1, {}, TRUE)

NextPeers ==
    \/ Within(MaxPeerEvents) /\ PeerConnectedAs(PeerIds, PeerAuthorityIds)
    \/ Within(MaxPeerEvents) /\ PeerDisconnected(PeerIds)
    \/ Within(MaxPeerEvents) /\ UpdatedAuthorityIds(PeerIds, PeerAuthorityIds)

SpecPeers == InitPeers /\ [][NextPeers]_vars

MaxResponderEvents == 12

InitResponderTask == InitWith(PeerIds, "active", 1, {}, TRUE)

NextResponderTask ==
    \/ Within(MaxResponderEvents) /\ IncomingRequest(PeerIds, {"c1"}, {BlankFilter(3)})
    \/ WaitForOne
    \/ FeedRequest
    \/ RequestFinished
    \/ ServeRequest

SpecResponderTask ==
    /\ InitResponderTask
    /\ [][NextResponderTask]_vars
    /\ WF_vars(WaitForOne)
    /\ WF_vars(FeedRequest)
    /\ WF_vars(RequestFinished)
    /\ WF_vars(ServeRequest)

\* The sent-feedback of a forwarded request of peer p is outstanding.
Outstanding(p) == \E e \in pending_out : e.peer = p

\* The sent-feedback of a forwarded request of peer p has not resolved.
Unresolved(p) == \E e \in pending_out : e.peer = p /\ ~e.ready

\* C22: at most one request per peer is forwarded at a time: there are never
\* two outstanding requests of one peer, a request of a peer whose
\* sent-feedback has not resolved is dropped (nothing is held, queued or
\* forwarded), and a peer whose feedback has resolved is eventually no
\* active peer any more, so that its next request is admitted.
C22_OneRequestPerPeer ==
    /\ [](\A e1, e2 \in pending_out : e1.peer = e2.peer => e1 = e2)
    /\ [](\A i, j \in 1..Len(responder_messages) :
            responder_messages[i].peer = responder_messages[j].peer => i = j)
    /\ [][(event'.name = "IncomingRequest" /\ Unresolved(event'.peer))
            => (event'.admission = "drop" /\ UNCHANGED responder_vars)]_vars
    /\ [][(event'.name = "IncomingRequest" /\ event'.peer \notin active_peers)
            => event'.admission # "drop"]_vars
    /\ \A p \in PeerIds : (Outstanding(p) /\ ~Unresolved(p)) ~> (p \notin active_peers)

\* A request of pA arrives while the request of pA that was forwarded is
\* still in the channel: it is dropped.
C22_DroppedWhileServed ==
    /\ event.name = "IncomingRequest" /\ event.peer = "pA"
    /\ event.admission = "drop"
    /\ Unresolved("pA")
    /\ \E i \in 1..Len(responder_messages) : responder_messages[i].peer = "pA"

\* C23: the outstanding requests never exceed the cap, the active peers are
\* the peers of the outstanding requests, and a request that arrives at the
\* cap is forwarded only after an outstanding request has finished.
C23_ParallelCap ==
    /\ [](Cardinality(pending_out) <= MAX_PARALLEL_ATTESTED_CANDIDATE_REQUESTS)
    /\ [](active_peers = {e.peer : e \in pending_out})
    /\ [][(event'.name = "IncomingRequest" /\ event'.peer \notin active_peers
             /\ Cardinality(pending_out) >= MAX_PARALLEL_ATTESTED_CANDIDATE_REQUESTS)
            => event'.admission = "wait"]_vars
    /\ [][event'.name = "Forwarded" =>
            Cardinality(pending_out) < MAX_PARALLEL_ATTESTED_CANDIDATE_REQUESTS]_vars
    /\ [][(respond_pc = "wait" /\ respond_pc' # "wait") =>
            /\ event'.name = "WaitedForOne"
            /\ Cardinality(pending_out') = Cardinality(pending_out) - 1
            /\ responder_messages' = responder_messages]_vars

\* The request of pC arrived at the cap and waited until the request of
\* pA had finished; it is forwarded now, beside the request of pB.
C23_ForwardedAfterWait ==
    /\ event.name = "Forwarded" /\ event.peer = "pC"
    /\ active_peers = {"pB", "pC"}
    /\ Cardinality(pending_out) = MAX_PARALLEL_ATTESTED_CANDIDATE_REQUESTS

(***************************************************************************)
(* Retrying a request                                                      *)
(***************************************************************************)

RetryResponses == {Failed, Data("c1", {Signed(1, "Seconded", "c1")})}

MaxRetryEvents == 7

InitRetry == InitWith(ClusterPeers, "active", 1, {}, FALSE)

NextRetry ==
    \/ Within(MaxRetryEvents)
          /\ IncomingStatement(ClusterPeers, {RP}, {1}, {"c1"}, {TRUE})
    \/ Within(MaxRetryEvents)
          /\ IncomingStatement(ClusterPeers, {RP}, {2}, {"c2"}, {TRUE})
    \/ Within(MaxRetryEvents) /\ DispatchRequests
    \/ Within(MaxRetryEvents) /\ Response(RetryResponses, {TRUE})
    \/ Within(MaxRetryEvents) /\ RetryRequest
    \/ Within(MaxRetryEvents) /\ TimePasses

SpecRetry == InitRetry /\ [][NextRetry]_vars

\* The requests in flight for candidate c.
InFlightFor(c) == {r \in response_manager : r.id.c = c}

\* The request id is in flight after the step, with one request message sent.
DispatchedOnce(id) ==
    /\ request_manager'[id].in_flight
    /\ Cardinality(InFlightFor(id.c)') = 1
    /\ Cardinality({i \in 1..Len(network') :
           network'[i].type = "Request" /\ network'[i].c = id.c}) = 1

\* The request id is left as it was, because the step has sent another
\* request to each peer that id could have been sent to.
TargetsTaken(id) ==
    /\ request_manager'[id] = request_manager[id]
    /\ \A i \in 1..Len(request_manager[id].known_by) :
          IsRequestTarget(State, id, request_manager[id].known_by[i])
             => \E r \in response_manager' \ response_manager :
                   r.peer = request_manager[id].known_by[i] /\ r.id # id

C25_WaitsResolveOnlyWhenPending ==
    /\ [][event'.name = "Retry" =>
            /\ PendingRetryTimes(request_manager) # {}
            /\ DOMAIN request_manager' = DOMAIN request_manager
            /\ \A id \in DOMAIN request_manager :
                  LET t == request_manager[id].next_retry_time
                      t2 == request_manager'[id].next_retry_time
                  IN /\ (t > 0 /\ \A u \in PendingRetryTimes(request_manager) : t <= u)
                          => t2 = 0
                     /\ (t > 0 /\ \E u \in PendingRetryTimes(request_manager) : u < t)
                          => (t2 > 0 /\ t2 < t)
                     /\ t <= 0 => t2 = t]_vars
    /\ [][event'.name = "Response" =>
            \E r \in response_manager :
               /\ r.id = event'.id /\ r.peer = event'.peer
               /\ r \notin response_manager']_vars
    /\ [][response_manager = {} => event'.name # "Response"]_vars
    /\ [][PendingRetryTimes(request_manager) = {} => event'.name # "Retry"]_vars

\* next_retry has resolved at the retry time of one request while the retry
\* time of another request still lies ahead.
C25_EarliestReached ==
    /\ event.name = "Retry"
    /\ \E id1, id2 \in DOMAIN request_manager :
          /\ ~request_manager[id1].in_flight
          /\ request_manager[id1].next_retry_time = 0
          /\ request_manager[id2].next_retry_time > 0

(***************************************************************************)
(* Dissemination in the cluster.  pB is connected; pA connects, with or    *)
(* without its authority id, changes its view and updates its authority    *)
(* ids while statements about c1 arrive and c1 is confirmed, in any order. *)
(* The subsystem's loop handles every message it receives, so events keep  *)
(* being delivered and handled while the scenario owes one: the connection *)
(* of pA, its view of the relay parent, its authority id, the statement of *)
(* validator 2 or the local statement.  Beyond that nothing is owed: the   *)
(* handlers run to completion and leave no work behind.                    *)
(***************************************************************************)

MaxDisseminationEvents == 6

InitDissemination == InitWith({"pB"}, "active", 1, {}, FALSE)

NextDissemination ==
    \/ Within(MaxDisseminationEvents)
          /\ PeerConnectedAs({"pA"}, {{}, {AnnouncedAuthority("pA")}})
    \/ Within(MaxDisseminationEvents) /\ PeerDisconnected({"pA"})
    \/ Within(MaxDisseminationEvents) /\ PeerViewChangeTo({"pA"}, {{}, {RP}})
    \/ Within(MaxDisseminationEvents)
          /\ UpdatedAuthorityIds({"pA"}, {{}, {AnnouncedAuthority("pA")}})
    \/ Within(MaxDisseminationEvents)
          /\ IncomingStatement({"pB"}, {RP}, {2}, {"c1"}, {TRUE})
    \/ Within(MaxDisseminationEvents) /\ Share({"c1"}, {TRUE})

\* The scenario still owes an event: pA is not connected, does not know
\* the relay parent or has not announced its authority id, the statement of
\* validator 2 is not stored, or c1 is not confirmed.
EventsOwed ==
    \/ ~peers["pA"].connected
    \/ ~knows_relay_parent(State, "pA", RP)
    \/ AnnouncedAuthority("pA") \notin peers["pA"].ids
    \/ ~validator_statement(per_relay_parent.statement_store, 2,
                            Stmt("Valid", "c1"))
    \/ ~is_confirmed(candidates, "c1")

\* Events keep being delivered and handled while the scenario owes one.
DeliverOwed == EventsOwed /\ NextDissemination

SpecDissemination ==
    /\ InitDissemination
    /\ [][NextDissemination]_vars
    /\ WF_vars(DeliverOwed)

\* The statement x of a member of the local group is stored, its candidate
\* is confirmed, and validator v of the cluster is behind a connected peer
\* that is known to control its authority id and knows the relay parent.
OwedTo(v, x) ==
    /\ is_confirmed(candidates, x.st.c)
    /\ candidates[x.st.c].group = by_validator_index(LocalIndex)
    /\ validator_statement(per_relay_parent.statement_store, x.v, x.st)
    /\ \E q \in PeerIds :
          /\ peers[q].connected
          /\ authorities[discovery_keys(v)] = q
          /\ discovery_keys(v) \in peers[q].ids
          /\ knows_relay_parent(State, q, RP)

\* Validator v has been sent the statement x, or has sent it itself.
SentTo(v, x) == they_know_statement(per_relay_parent.cluster_tracker, v, x.v, x.st)

\* The statements of the members of the local group about c1.
ClusterStatements ==
    {SignedStmt(o, Stmt(k, "c1")) :
        o \in GroupSet(by_validator_index(LocalIndex)), k \in Kinds}

\* C26: a stored statement of a group member about a confirmed candidate of
\* the local group is eventually sent to every other cluster validator, as
\* long as the validator stays behind a connected peer that is known to
\* control its authority id and knows the relay parent.
C26_EventuallySentToCluster ==
    \A v \in GroupSet(by_validator_index(LocalIndex)) \ {LocalIndex} :
       \A x \in {y \in ClusterStatements : y.v # v} :
          OwedTo(v, x) ~> (SentTo(v, x) \/ ~OwedTo(v, x))

\* Below the bound on events, the scenario owes nothing more and a stored
\* statement is still unsent to a validator it is owed to: nothing the
\* orchestrator has left to do will send it.
C26_OwedAndQuiet ==
    /\ Within(MaxDisseminationEvents)
    /\ ~EventsOwed
    /\ event.name = "UpdatedAuthorityIds"
    /\ \E v \in GroupSet(by_validator_index(LocalIndex)) \ {LocalIndex} :
          \E x \in {y \in ClusterStatements : y.v # v} :
             OwedTo(v, x) /\ ~SentTo(v, x)

(***************************************************************************)
(* Statements the cluster tracker rejects or accepts with prejudice        *)
(***************************************************************************)

MaxClusterEvents == 4

InitCluster == InitWith(ClusterPeers, "active", 1, {}, FALSE)

NextCluster ==
    \/ Within(MaxClusterEvents)
          /\ IncomingStatement(ClusterPeers, {RP}, {1, 2}, ClusterCandidates, {TRUE})
    \/ Within(MaxClusterEvents) /\ Share(ClusterCandidates, {TRUE})

SpecCluster == InitCluster /\ [][NextCluster]_vars

\* The incoming statement of event ev passes the checks that precede the
\* cluster tracker and comes from a cluster sender.
ReachesCluster(ev) ==
    /\ ev.name = "Statement"
    /\ peers[ev.peer].connected
    /\ ev.rp = RP /\ per_relay_parent.present
    /\ ev.v \notin per_relay_parent.disabled
    /\ per_relay_parent.local_validator = "active"
    /\ by_validator_index(ev.v) # NoGroup
    /\ ClusterSenders(State, ev.peer, ev.v) # {}

\* ClusterTracker::can_receive for the statement of event ev.
ClusterVerdict(ev) ==
    can_receive(per_relay_parent.cluster_tracker,
                CHOOSE v \in ClusterSenders(State, ev.peer, ev.v) : TRUE, ev.v, ev.st)

\* The reputation cost of a rejection by the cluster tracker.
ClusterRejectionCost(acc) ==
    IF acc = "ExcessiveSeconded" THEN COST_EXCESSIVE_SECONDED
    ELSE IF acc = "NotInGroup" THEN COST_UNEXPECTED_STATEMENT_NOT_IN_GROUP
    ELSE COST_UNEXPECTED_STATEMENT_CLUSTER_REJECTED

\* C27: when the cluster tracker rejects an incoming statement, the sender
\* is charged the one cost of the rejection, and the cluster tracker, the
\* statement store, the candidates and the requests are left as they were;
\* nothing is sent.
C27_ClusterRejectionCharged ==
    [][(ReachesCluster(event')
          /\ ClusterVerdict(event') \in
                {"ExcessiveSeconded", "CandidateUnknown", "Duplicate", "NotInGroup"})
        => /\ reputation' = <<[peer |-> event'.peer,
                               rep |-> ClusterRejectionCost(ClusterVerdict(event'))]>>
           /\ per_relay_parent' = per_relay_parent
           /\ candidates' = candidates
           /\ request_manager' = request_manager
           /\ response_manager' = response_manager
           /\ network' = <<>>
           /\ backing' = <<>>]_vars

\* pA has sent a second Seconded statement of validator 1 beyond the
\* seconding limit and has been charged for it.
C27_ExcessiveSecondedCharged ==
    /\ event.name = "Statement" /\ event.peer = "pA"
    /\ event.st.kind = "Seconded"
    /\ reputation = <<[peer |-> "pA", rep |-> COST_EXCESSIVE_SECONDED]>>
    /\ ~validator_statement(per_relay_parent.statement_store, event.v, event.st)

\* C28: a correctly signed statement that the cluster tracker accepts with
\* prejudice is noted as received from its sender in the cluster tracker
\* and changes nothing else: it is not stored, no message is sent, nothing
\* goes to backing and no reputation changes.
C28_PrejudiceRecordedOnly ==
    [][(ReachesCluster(event') /\ event'.sig
          /\ ClusterVerdict(event') = "WithPrejudice")
        => LET sender == CHOOSE v \in ClusterSenders(State, event'.peer, event'.v) : TRUE
           IN /\ per_relay_parent' =
                    [per_relay_parent EXCEPT !.cluster_tracker =
                        note_received(@, sender, event'.v, event'.st)]
              /\ Specific("In", event'.st, event'.v)
                    \in Knows(per_relay_parent'.cluster_tracker, sender)
              /\ ~validator_statement(per_relay_parent'.statement_store,
                                      event'.v, event'.st)
              /\ reputation' = <<>>
              /\ network' = <<>>
              /\ backing' = <<>>
              /\ candidates' = candidates
              /\ request_manager' = request_manager]_vars

\* pB has sent a Seconded statement of validator 1 beyond validator 1's
\* seconding limit: it is noted as received from validator 2 and not stored.
C28_AcceptedWithPrejudice ==
    /\ event.name = "Statement" /\ event.peer = "pB" /\ event.v = 1
    /\ event.st.kind = "Seconded" /\ event.sig
    /\ reputation = <<>>
    /\ Specific("In", event.st, 1) \in Knows(per_relay_parent.cluster_tracker, 2)
    /\ ~validator_statement(per_relay_parent.statement_store, 1, event.st)

(***************************************************************************)
(* Answering requests.  pA and pB are behind cluster validators, pC behind *)
(* a grid validator; c1 is seconded, confirmed and backed while requests   *)
(* for it arrive with masks of the right and of wrong sizes.               *)
(***************************************************************************)

AnswerMasks ==
    {BlankFilter(3),
     BlankFilter(2),
     [len |-> 3, vlen |-> 2, seconded |-> {}, validated |-> {}],
     [len |-> 3, seconded |-> {1, 2, 3}, validated |-> {}]}

MaxAnswerEvents == 5

InitAnswer == InitWith({"pA", "pB", "pC"}, "active", 1, {}, TRUE)

NextAnswer ==
    \/ Within(MaxAnswerEvents) /\ Share({"c1"}, {TRUE})
    \/ Within(MaxAnswerEvents)
          /\ IncomingStatement({"pA"}, {RP}, {1}, {"c1"}, {TRUE})
    \/ Within(MaxAnswerEvents) /\ Backed({"c1"}, {TRUE})
    \/ Within(MaxAnswerEvents)
          /\ AnswerRequest({"pA", "pC"}, {"c1", "c2"}, AnswerMasks)

SpecAnswer == InitAnswer /\ [][NextAnswer]_vars

\* The responses with candidate data among the messages msgs.
Answers(msgs) == {i \in 1..Len(msgs) : msgs[i].type = "Response"}

\* The request of event ev gets as far as the check of its mask.
RequestChecked(ev) ==
    /\ is_confirmed(candidates, ev.c)
    /\ Receipt(ev.c).relay_parent = RP /\ per_relay_parent.present
    /\ per_relay_parent.local_validator # "none"
    /\ peers[ev.peer].connected

\* Both bitfields of the mask have the size of the candidate's group.
MaskFits(ev) ==
    /\ seconded_in_group_len(ev.mask) = Len(GroupSeq(candidates[ev.c].group))
    /\ validated_in_group_len(ev.mask) = Len(GroupSeq(candidates[ev.c].group))

\* C29: answer_request sends candidate data only for a confirmed candidate,
\* a mask whose two bitfields have the group size and a peer behind a
\* cluster validator or a grid validator that can request the candidate,
\* and to a grid validator only statements that contain a Seconded one and
\* reach the backing threshold; a mask of a wrong size is answered with
\* COST_INVALID_REQUEST_BITFIELD_SIZE, a peer that cannot request with
\* COST_UNEXPECTED_REQUEST; without candidate data sent the trackers stay
\* as they were.
C29_AnswerOnlyWhenAllowed ==
    [][event'.name = "Request" =>
        LET ev == event'
            cl == ClusterRequesters(State, ev.peer, ev.c)
            gr == GridRequesters(State, ev.peer, ev.c)
        IN /\ Cardinality(Answers(network')) <= 1
           /\ \A i \in Answers(network') :
                 /\ RequestChecked(ev) /\ MaskFits(ev)
                 /\ network'[i].to = ev.peer /\ network'[i].c = ev.c
                 /\ cl # {} \/ gr # {}
                 /\ cl = {} =>
                       /\ \E x \in network'[i].stmts : x.st.kind = "Seconded"
                       /\ Cardinality({x.v : x \in network'[i].stmts})
                             >= backing_threshold(candidates[ev.c].group)
           /\ (RequestChecked(ev) /\ ~MaskFits(ev))
                 => network' = <<ResponseErr(ev.peer, ev.c,
                                             COST_INVALID_REQUEST_BITFIELD_SIZE)>>
           /\ (RequestChecked(ev) /\ MaskFits(ev) /\ cl = {} /\ gr = {})
                 => network' = <<ResponseErr(ev.peer, ev.c, COST_UNEXPECTED_REQUEST)>>
           /\ Answers(network') = {} => per_relay_parent' = per_relay_parent
           /\ candidates' = candidates
           /\ request_manager' = request_manager
           /\ reputation' = <<>>]_vars

\* pC, behind a grid validator that was sent the manifest of c1, has
\* requested c1 and got the candidate with the statements that back it.
C29_GridRequestAnswered ==
    /\ event.name = "Request" /\ event.peer = "pC" /\ event.c = "c1"
    /\ Len(network) = 1 /\ network[1].type = "Response"
    /\ \E x \in network[1].stmts : x.st.kind = "Seconded"
    /\ Cardinality({x.v : x \in network[1].stmts}) >= backing_threshold(0)

\* pC has asked for c1 without the Seconded statements: nothing is sent.
C29_GridRequestDropped ==
    /\ event.name = "Request" /\ event.peer = "pC" /\ event.c = "c1"
    /\ event.mask.seconded = {1, 2, 3}
    /\ GridRequesters(State, "pC", "c1") # {}
    /\ network = <<>>

(***************************************************************************)
(* Disabled validators.  Validator 2 of the local group or validator 4 of  *)
(* group 1 is disabled at the relay parent; statements of all validators   *)
(* arrive from the cluster peer pA and the grid peer pC, pC sends its      *)
(* manifest of c3 and acknowledges c1.                                     *)
(***************************************************************************)

DisabledManifests == {Manifest("c3", ParaB, 1, "h1", Knowledge(2, {1}, {2}))}

DisabledAcknowledgements == {Knowledge(3, {1}, {2, 3}), Knowledge(3, {1}, {3})}

MaxDisabledEvents == 5

InitDisabled ==
    \E disabled \in {{2}, {4}} : InitWith({"pA", "pC"}, "active", 1, disabled, TRUE)

NextDisabled ==
    \/ Within(MaxDisabledEvents)
          /\ IncomingStatement({"pA", "pC"}, {RP}, {1, 2, 4}, {"c1", "c3"}, {TRUE})
    \/ Within(MaxDisabledEvents) /\ IncomingManifest({"pC"}, {RP}, DisabledManifests)
    \/ Within(MaxDisabledEvents)
          /\ IncomingAcknowledgement({"pC"}, {"c1"}, DisabledAcknowledgements)
    \/ Within(MaxDisabledEvents) /\ Share({"c1"}, {TRUE})
    \/ Within(MaxDisabledEvents) /\ Backed({"c1"}, {TRUE})

SpecDisabled == InitDisabled /\ [][NextDisabled]_vars

\* The votes of statement knowledge know of group g that are not those of
\* disabled validators.
EnabledVotes(g, know) ==
    (know.seconded \cup know.validated) \ disabled_bitmask(State, g)

\* The manifest or acknowledgement of event ev, as [group, know].
Advertised(ev) ==
    IF ev.name = "Manifest" THEN [group |-> ev.group, know |-> ev.know]
    ELSE [group |-> candidates[ev.c].group, know |-> ev.know]

\* C30: a statement of a disabled originator at the known relay parent
\* costs its sender COST_DISABLED_VALIDATOR and changes nothing else, be
\* the sender a cluster sender, a grid sender or neither; the statement
\* store never holds a statement of a disabled validator; and a manifest
\* or acknowledgement is recorded without the bits of disabled validators
\* and only if the votes of the others reach the backing threshold.
C30_DisabledNeverImported ==
    /\ [](\A x \in per_relay_parent.statement_store.known :
            x.v \notin per_relay_parent.disabled)
    /\ [][(event'.name = "Statement" /\ peers[event'.peer].connected
             /\ event'.rp = RP /\ per_relay_parent.present
             /\ event'.v \in per_relay_parent.disabled)
            => /\ reputation' = <<[peer |-> event'.peer, rep |-> COST_DISABLED_VALIDATOR]>>
               /\ per_relay_parent' = per_relay_parent
               /\ candidates' = candidates
               /\ request_manager' = request_manager
               /\ response_manager' = response_manager
               /\ network' = <<>>
               /\ backing' = <<>>]_vars
    /\ [][event'.name \in {"Manifest", "Ack"} =>
            LET g == Advertised(event').group
                know == Advertised(event').know
            IN /\ \A m \in per_relay_parent'.grid_tracker.received
                            \ per_relay_parent.grid_tracker.received :
                     /\ m.know.seconded = know.seconded \ disabled_bitmask(State, g)
                     /\ m.know.validated = know.validated \ disabled_bitmask(State, g)
               /\ (g # NoGroup
                     /\ Cardinality(EnabledVotes(g, know)) < backing_threshold(g))
                    => per_relay_parent'.grid_tracker = per_relay_parent.grid_tracker]_vars

\* pA, behind validator 1 of the cluster, has sent a statement of the
\* disabled validator 2 of the cluster and has been charged for it.
C30_ClusterSenderCharged ==
    /\ event.name = "Statement" /\ event.peer = "pA" /\ event.v = 2
    /\ 2 \in per_relay_parent.disabled
    /\ ClusterSenders(State, "pA", 2) # {}
    /\ reputation = <<[peer |-> "pA", rep |-> COST_DISABLED_VALIDATOR]>>

\* pC has acknowledged c1 with the votes of the validators 0, 1 and the
\* disabled 2: the acknowledgement is recorded without the vote of 2.
C30_DisabledBitCleared ==
    /\ event.name = "Ack" /\ event.know.validated = {2, 3}
    /\ 2 \in per_relay_parent.disabled
    /\ \E m \in per_relay_parent.grid_tracker.received :
          m.c = "c1" /\ m.know.validated = {2}

(***************************************************************************)
(* The properties of the requests dispatch_requests sends.  The node is an *)
(* active or an inactive validator, validator 2 or 4 may be disabled; pA   *)
(* sends statements of validator 1 and pC advertises c3 of group 1.        *)
(***************************************************************************)

MaxPropsEvents == 5

InitProps ==
    \E local \in {"active", "inactive"}, disabled \in {{}, {2}, {4}} :
        InitWith({"pA", "pC"}, local, 1, disabled, TRUE)

NextProps ==
    \/ Within(MaxPropsEvents)
          /\ IncomingStatement({"pA"}, {RP}, {1, 2}, {"c1", "c2"}, {TRUE})
    \/ Within(MaxPropsEvents) /\ IncomingManifest({"pC"}, {RP}, RoleManifests)
    \/ Within(MaxPropsEvents) /\ Share({"c1"}, {TRUE})
    \/ Within(MaxPropsEvents) /\ DispatchRequests

SpecProps == InitProps /\ [][NextProps]_vars

\* The requests the last event sent: the entries of the response manager
\* whose request message it put on the network.
SentRequests ==
    {r \in response_manager :
        \E i \in 1..Len(network) :
            network[i] = RequestMsg(r.peer, r.id, r.unwanted)}

\* The seats of group g whose validator is disabled at the relay parent.
DisabledSeatsOf(g) ==
    {i \in 1..Len(GroupSeq(g)) : GroupSeq(g)[i] \in per_relay_parent.disabled}

\* The seats of group g whose validator has as many Seconded statements in
\* the store as the group has assignments.
OverSecondedSeats(g) ==
    {i \in 1..Len(GroupSeq(g)) :
        Cardinality({x \in per_relay_parent.statement_store.known :
                        x.v = GroupSeq(g)[i] /\ x.st.kind = "Seconded"})
            >= SecondingLimit(GroupSeq(g)[i])}

\* C31: a request dispatch_requests sends for a candidate of group g marks
\* as unwanted the Seconded vote of exactly the seats that are disabled or
\* have reached the seconding limit and the Valid vote of exactly the
\* disabled seats, and carries a backing threshold exactly when the node is
\* not an active validator of group g.
C31_RequestProperties ==
    event.name = "Dispatch" =>
        \A r \in SentRequests :
            /\ r.unwanted.len = Len(GroupSeq(r.id.g))
            /\ r.unwanted.seconded
                  = DisabledSeatsOf(r.id.g) \cup OverSecondedSeats(r.id.g)
            /\ r.unwanted.validated = DisabledSeatsOf(r.id.g)
            /\ (r.threshold = NoThreshold)
                  <=> (per_relay_parent.local_validator = "active"
                         /\ r.id.g = by_validator_index(LocalIndex))
            /\ r.threshold # NoThreshold
                  => r.threshold = backing_threshold(r.id.g)

\* A request for a candidate of the local group is sent while a member of
\* the group is disabled and another has reached the seconding limit.
C31_ClusterRequestMasked ==
    /\ event.name = "Dispatch"
    /\ \E r \in SentRequests :
          /\ r.id.g = by_validator_index(LocalIndex)
          /\ r.threshold = NoThreshold
          /\ DisabledSeatsOf(r.id.g) # {}
          /\ OverSecondedSeats(r.id.g) \ DisabledSeatsOf(r.id.g) # {}

\* An inactive validator sends a request for a candidate of group 1 with
\* the group's backing threshold.
C31_GridRequestWithThreshold ==
    /\ event.name = "Dispatch"
    /\ per_relay_parent.local_validator = "inactive"
    /\ \E r \in SentRequests :
          /\ r.id.g = 1
          /\ r.threshold = backing_threshold(r.id.g)

(***************************************************************************)
(* Who is sent what.  The steps of SpecGrid are compared with the records  *)
(* the trackers keep of what was sent.                                     *)
(***************************************************************************)

\* The gossip messages the last event sent.
GossipSent(msgs) ==
    {msgs[i] : i \in {j \in 1..Len(msgs) :
                        msgs[j].type \in {"Statement", "Manifest", "Ack"}}}

\* The statements the cluster tracker ct records as sent to validator v.
ClusterSentTo(ct, v) ==
    {t \in Knows(ct, v) : t.tag = "Out" /\ t.k # "General"}

\* The grid tracker records the manifest or acknowledgement of c as sent
\* to validator v.
GridManifestSentTo(grid, v, c) ==
    grid.backed[c].present /\ grid.backed[c].mutual[v].hl

\* Manifests were exchanged with v about c and the vote is not known to v.
GridStatementOwed(grid, v, c, seat, kind) ==
    /\ grid.backed[c].present
    /\ grid.backed[c].mutual[v].hl
    /\ grid.backed[c].mutual[v].hr
    /\ ~FilterContains(grid.backed[c].mutual[v].r, seat, kind)

\* The vote is known to v without v having delivered it.
GridStatementSentTo(grid, v, c, seat, kind) ==
    /\ grid.backed[c].present
    /\ FilterContains(grid.backed[c].mutual[v].r, seat, kind)
    /\ ~FilterContains(grid.backed[c].mutual[v].rc, seat, kind)

\* The events whose messages are all sent by circulate_statement or by
\* provide_candidate_to_grid.
CirculatingEvents == {"Share", "Statement", "Backed", "Response"}

\* C32: circulate_statement and provide_candidate_to_grid send a statement,
\* a manifest or an acknowledgement only to a connected peer whose view or
\* implicit view contains the relay parent, and whatever they newly record
\* as sent to a validator, in the cluster tracker or in the grid tracker,
\* is in a message of the same step to the validator's peer.
C32_SentAsRecorded ==
    [][event'.name \in CirculatingEvents =>
       /\ \A m \in GossipSent(network') :
            /\ peers'[m.to].connected
            /\ RP \in peers'[m.to].view \cup peers'[m.to].implicit_view
       /\ \A v \in per_relay_parent'.cluster_tracker.validators :
            \A t \in ClusterSentTo(per_relay_parent'.cluster_tracker, v)
                        \ ClusterSentTo(per_relay_parent.cluster_tracker, v) :
                \E m \in GossipSent(network') :
                    /\ m.type = "Statement"
                    /\ m.to = authorities'[discovery_keys(v)]
                    /\ m.v = t.o /\ m.st = Stmt(t.k, t.c)
       /\ \A v \in Validators, c \in CandidateHashes :
            /\ GridManifestSentTo(per_relay_parent'.grid_tracker, v, c)
            /\ ~GridManifestSentTo(per_relay_parent.grid_tracker, v, c)
            => \E m \in GossipSent(network') :
                    /\ m.type \in {"Manifest", "Ack"}
                    /\ m.to = authorities'[discovery_keys(v)]
                    /\ m.c = c
       /\ \A v \in Validators, c \in CandidateHashes, k \in Kinds,
             g \in GroupIndices :
            \A seat \in 1..Len(GroupSeq(g)) :
                /\ per_relay_parent.grid_tracker.backed[c].group = g
                /\ GridStatementOwed(per_relay_parent.grid_tracker, v, c, seat, k)
                /\ GridStatementSentTo(per_relay_parent'.grid_tracker, v, c, seat, k)
                => \E m \in GossipSent(network') :
                        /\ m.type = "Statement"
                        /\ m.to = authorities'[discovery_keys(v)]
                        /\ m.v = GroupSeq(g)[seat] /\ m.st = Stmt(k, c)
      ]_vars

\* c1 is backed while pC, the peer of the grid neighbour 3, does not know
\* the relay parent: no manifest is sent and none is recorded as sent.
C32_ManifestHeldBack ==
    /\ event.name = "Backed"
    /\ per_relay_parent.grid_tracker.backed["c1"].present
    /\ authorities[discovery_keys(3)] = "pC"
    /\ RP \notin peers["pC"].view \cup peers["pC"].implicit_view
    /\ ~GridManifestSentTo(per_relay_parent.grid_tracker, 3, "c1")
    /\ GossipSent(network) = {}

\* A statement is sent to pA and recorded as sent to validator 1 only:
\* validator 2 has no connected peer.
C32_SentToConnectedOnly ==
    /\ event.name = "Share"
    /\ \E m \in GossipSent(network) : m.type = "Statement" /\ m.to = "pA"
    /\ ClusterSentTo(per_relay_parent.cluster_tracker, 1) # {}
    /\ ClusterSentTo(per_relay_parent.cluster_tracker, 2) = {}
    /\ authorities[discovery_keys(2)] = NoPeer

(***************************************************************************)
(* Statements with signatures that do not verify.  pC advertises c3 of     *)
(* group 1, which is fetched and backed; pA and pC send statements of      *)
(* validators 1 and 4 with valid and invalid signatures, also for a relay  *)
(* parent the node does not know.                                          *)
(***************************************************************************)

MaxSignatureEvents == 6

InitSignature ==
    \E disabled \in {{}, {1}} : InitWith({"pA", "pC"}, "active", 1, disabled, TRUE)

NextSignature ==
    \/ Within(MaxSignatureEvents)
          /\ IncomingManifest({"pC"}, {RP}, RoleManifests)
    \/ Within(MaxSignatureEvents) /\ DispatchRequests
    \/ Within(MaxSignatureEvents) /\ Response(RoleResponses, {TRUE})
    \/ Within(MaxSignatureEvents) /\ Backed({"c3"}, {TRUE})
    \/ Within(MaxSignatureEvents)
          /\ IncomingStatement({"pA"}, {RP, RPUnknown}, {1}, {"c1"}, BOOLEAN)
    \/ Within(MaxSignatureEvents)
          /\ IncomingStatement({"pA", "pC"}, {RP}, {4}, {"c3"}, BOOLEAN)

SpecSignature == InitSignature /\ [][NextSignature]_vars

\* The statement of the next event passes every check that precedes the
\* signature check: the relay parent is known, the originator is not
\* disabled and belongs to a group, the node is a validator, and either the
\* cluster tracker can receive the statement from the peer or the peer is a
\* grid provider that has not delivered the statement yet.
SignatureChecked ==
    LET p == event'.peer
        o == event'.v
        st == event'.st
    IN /\ event'.rp = RP
       /\ per_relay_parent.present
       /\ o \notin per_relay_parent.disabled
       /\ per_relay_parent.local_validator # "none"
       /\ by_validator_index(o) # NoGroup
       /\ IF ViaCluster(p, o)
          THEN \E v \in ValidatorsOf(p) \cap GroupSet(by_validator_index(LocalIndex)) :
                  can_receive(per_relay_parent.cluster_tracker, v, o, st)
                      \in {"Ok", "WithPrejudice"}
          ELSE \E v \in ValidatorsOf(p)
                        \cap direct_statement_providers(
                                per_relay_parent.grid_tracker, o, st) :
                  ~validator_knows_statement(per_relay_parent.grid_tracker, v, o, st)

\* The step leaves the trackers, the store, the candidates and the requests
\* as they were and sends nothing.
NothingButReputation ==
    /\ per_relay_parent' = per_relay_parent
    /\ candidates' = candidates
    /\ request_manager' = request_manager
    /\ response_manager' = response_manager
    /\ network' = <<>>
    /\ backing' = <<>>

\* C33 as stated: a statement whose signature does not verify is answered
\* with COST_INVALID_SIGNATURE and changes nothing.
C33_InvalidSignatureCharged ==
    [][(event'.name = "Statement" /\ ~event'.sig)
       => /\ reputation' = <<[peer |-> event'.peer, rep |-> COST_INVALID_SIGNATURE]>>
          /\ NothingButReputation]_vars

\* C33: a statement whose signature does not verify changes nothing but
\* reputation; it is answered with COST_INVALID_SIGNATURE exactly when it
\* passes the checks that precede the signature check, and otherwise with
\* the answer of the check it fails.
C33_InvalidSignatureDropped ==
    [][(event'.name = "Statement" /\ ~event'.sig)
       => /\ NothingButReputation
          /\ SignatureChecked
                => reputation' = <<[peer |-> event'.peer,
                                    rep |-> COST_INVALID_SIGNATURE]>>
          /\ ~SignatureChecked
                => \A i \in 1..Len(reputation') :
                       reputation'[i].rep # COST_INVALID_SIGNATURE]_vars

\* pC, a grid provider of the statement of validator 4 about the backed
\* candidate c3, sends it with a signature that does not verify and is
\* charged COST_INVALID_SIGNATURE.
C33_GridSignatureCharged ==
    /\ event.name = "Statement"
    /\ ~event.sig
    /\ event.peer = "pC"
    /\ per_relay_parent.grid_tracker.backed["c3"].present
    /\ reputation = <<[peer |-> "pC", rep |-> COST_INVALID_SIGNATURE]>>

\* pA, a cluster member, sends a statement of validator 1 with a signature
\* that does not verify and is charged COST_INVALID_SIGNATURE.
C33_ClusterSignatureCharged ==
    /\ event.name = "Statement"
    /\ ~event.sig
    /\ event.peer = "pA"
    /\ event.v = 1
    /\ reputation = <<[peer |-> "pA", rep |-> COST_INVALID_SIGNATURE]>>

\* pC sends a statement it has delivered before, now with a signature that
\* does not verify, and is rewarded: the signature is not looked at.
C33_DuplicateRewardedUnverified ==
    /\ event.name = "Statement"
    /\ ~event.sig
    /\ event.peer = "pC"
    /\ reputation = <<[peer |-> "pC", rep |-> BENEFIT_VALID_STATEMENT]>>

(***************************************************************************)
(* The sessions of the tracked relay parents, in SpecLeaves.               *)
(***************************************************************************)

\* C34: every relay parent that has a PerRelayParentState is of a session
\* that has a PerSessionState.
C34_TrackedSessionsKnown ==
    \A h \in Hashes :
        HasRelayParentState(State, h) => per_session[session_index_for_child(h)] # "none"

\* A deactivation removed RPNext and collected its session while RP, of the
\* other session, stays tracked.
C34_OtherSessionCollected ==
    /\ event.name = "DeactivateLeaves"
    /\ RPNext \in Range(event.leaves)
    /\ per_session[NextSession] = "none"
    /\ HasRelayParentState(State, RP)
    /\ per_session[SessionOfRP] # "none"

\* An activation whose late queries failed left a PerSessionState without a
\* tracked relay parent while another session is tracked.
C34_SessionWithoutRelayParent ==
    /\ event.name = "ActiveLeaves"
    /\ per_session[NextSession] # "none"
    /\ ~HasRelayParentState(State, RPNext)
    /\ HasRelayParentState(State, RP)

(***************************************************************************)
(* Leaf activations and the relay parents that are tracked already.        *)
(***************************************************************************)

\* C35 as stated: a leaf activation leaves the PerRelayParentState of a
\* relay parent that is tracked already exactly as it was.
C35_TrackedStateUnchanged ==
    [][(event'.name = "ActiveLeaves" /\ per_relay_parent.present)
        => per_relay_parent' = per_relay_parent]_vars

\* The tracker ct2 holds what ct1 holds and, beyond that, only records of
\* statements sent: outgoing knowledge, the Seconded marks that come with
\* it, and fewer pending statements.
ClusterOnlySentMore(ct1, ct2) ==
    /\ ct2.validators = ct1.validators
    /\ ct2.seconding_limit = ct1.seconding_limit
    /\ \A v \in ct1.validators :
          /\ ct1.knowledge[v] \subseteq ct2.knowledge[v]
          /\ \A t \in ct2.knowledge[v] \ ct1.knowledge[v] :
                t.tag \in {"Out", "Seconded"}
          /\ ct2.pending[v] \subseteq ct1.pending[v]

\* The grid tracker g2 holds the manifests and the backed candidates of g1
\* with the same local knowledge.
GridKept(g1, g2) ==
    /\ g2.received = g1.received
    /\ g2.unconfirmed = g1.unconfirmed
    /\ \A c \in CandidateHashes :
          /\ g2.backed[c].present = g1.backed[c].present
          /\ g2.backed[c].group = g1.backed[c].group
          /\ g2.backed[c].local = g1.backed[c].local
          /\ \A v \in Validators :
                /\ g1.backed[c].mutual[v].hl => g2.backed[c].mutual[v].hl
                /\ g2.backed[c].mutual[v].hr = g1.backed[c].mutual[v].hr
                /\ g2.backed[c].mutual[v].rc = g1.backed[c].mutual[v].rc

\* C35: a leaf activation does not replace the PerRelayParentState of a
\* relay parent that is tracked already: its role, assignments and disabled
\* validators are unchanged, its statement store holds the same statements,
\* and its trackers keep what they hold; they change only by recording
\* what the activation sends to peers, and they are unchanged when it sends
\* nothing.
C35_TrackedStateKept ==
    [][(event'.name = "ActiveLeaves" /\ per_relay_parent.present)
        => /\ per_relay_parent'.present
           /\ per_relay_parent'.local_validator = per_relay_parent.local_validator
           /\ per_relay_parent'.assignments = per_relay_parent.assignments
           /\ per_relay_parent'.disabled = per_relay_parent.disabled
           /\ per_relay_parent'.statement_store.known
                 = per_relay_parent.statement_store.known
           /\ per_relay_parent.statement_store.backing
                 \subseteq per_relay_parent'.statement_store.backing
           /\ ClusterOnlySentMore(per_relay_parent.cluster_tracker,
                                  per_relay_parent'.cluster_tracker)
           /\ GridKept(per_relay_parent.grid_tracker, per_relay_parent'.grid_tracker)
           /\ network' = <<>>
                 => /\ per_relay_parent'.cluster_tracker
                          = per_relay_parent.cluster_tracker
                    /\ per_relay_parent'.grid_tracker
                          = per_relay_parent.grid_tracker]_vars

\* The leaf RPChild is activated while RP is tracked with statements in its
\* store, and the activation sends pending statements of RP to a peer.
C35_ActivatedOverTracked ==
    /\ event.name = "ActiveLeaves" /\ event.activated
    /\ event.leaf = RPChild
    /\ implicit_view = {RP, RPChild}
    /\ per_relay_parent.present
    /\ per_relay_parent.statement_store.known # {}
    /\ network # <<>>

\* The same without a message: the state of RP is as it was.
C35_ActivatedQuietly ==
    /\ event.name = "ActiveLeaves" /\ event.activated
    /\ event.leaf = RPChild
    /\ implicit_view = {RP, RPChild}
    /\ per_relay_parent.statement_store.known # {}
    /\ network = <<>>

(***************************************************************************)
(* The authority ids the peers record and the authority-to-peer map, in    *)
(* SpecPeers.                                                              *)
(***************************************************************************)

\* C36: every authority id a connected peer records is mapped to that peer,
\* and no authority id is recorded by two connected peers.
C36_AuthorityMapConsistent ==
    /\ \A p \in PeerIds :
          peers[p].connected => \A a \in peers[p].ids : authorities[a] = p
    /\ \A p, q \in PeerIds :
          (p # q /\ peers[p].connected /\ peers[q].connected)
             => peers[p].ids \cap peers[q].ids = {}


(***************************************************************************)
(* The statements the cluster tracker accepted and the statement store.    *)
(***************************************************************************)

\* The statement of the next event reaches the cluster tracker with a
\* signature that verifies and is accepted with ClusterAccept::Ok.
AcceptedByCluster ==
    /\ ReachesCluster(event')
    /\ event'.sig
    /\ ClusterVerdict(event') = "Ok"

\* The statement of the last event is recorded as received from a cluster
\* validator and is not in the statement store.
NotedNotStored ==
    /\ event.name = "Statement"
    /\ per_relay_parent.present
    /\ \E v \in per_relay_parent.cluster_tracker.validators :
          Specific("In", event.st, event.v)
              \in per_relay_parent.cluster_tracker.knowledge[v]
    /\ ~validator_statement(per_relay_parent.statement_store, event.v, event.st)

\* C37: every statement that the cluster tracker recorded as received with
\* ClusterAccept::Ok is in the statement store of the relay parent once the
\* message is handled.
C37_AcceptedIsStored ==
    [][AcceptedByCluster
          => validator_statement(per_relay_parent'.statement_store,
                                 event'.v, event'.st)]_vars

\* An accepted statement that is not stored was refused by
\* Candidates::insert_unconfirmed: its sender is charged
\* COST_UNEXPECTED_STATEMENT_BAD_ADVERTISE and the cluster tracker keeps the
\* record of the reception.
C37_AcceptedStoredOrCharged ==
    [][AcceptedByCluster
          => \/ validator_statement(per_relay_parent'.statement_store,
                                    event'.v, event'.st)
             \/ /\ reputation' =
                      <<[peer |-> event'.peer,
                         rep |-> COST_UNEXPECTED_STATEMENT_BAD_ADVERTISE]>>
                /\ NotedNotStored']_vars



(***************************************************************************)
(* Manifests and acknowledgements that cost their sender reputation.       *)
(***************************************************************************)

\* The reputation changes reps charge peer p a cost.
CostCharged(reps, p) ==
    \E i \in 1..Len(reps) :
        reps[i].peer = p /\ reps[i].rep[1] \in {"CostMinor", "CostMajor"}

\* The next event is a manifest or an acknowledgement whose sender is
\* charged a cost.
AdvertisementCharged ==
    /\ event'.name \in {"Manifest", "Ack"}
    /\ CostCharged(reputation', event'.peer)

\* C38: an incoming manifest or acknowledgement that costs its sender
\* reputation is dropped without effect: the grid tracker, the candidates
\* and the request manager are unchanged and no message is sent, also when
\* the cost is COST_INACCURATE_ADVERTISEMENT of insert_unconfirmed.
C38_ChargedWithoutEffect ==
    [][AdvertisementCharged => NothingRecorded]_vars

\* A manifest or acknowledgement that costs its sender reputation leaves
\* the candidates and the request manager as they were and sends nothing;
\* the grid tracker is unchanged unless the cost is
\* COST_INACCURATE_ADVERTISEMENT, which is charged after the grid tracker
\* imported the manifest.
C38_ChargedWithoutEffectButImport ==
    [][AdvertisementCharged
          => /\ candidates' = candidates
             /\ request_manager' = request_manager
             /\ network' = <<>>
             /\ reputation' # <<[peer |-> event'.peer,
                                 rep |-> COST_INACCURATE_ADVERTISEMENT]>>
                   => per_relay_parent' = per_relay_parent
             /\ [per_relay_parent' EXCEPT !.grid_tracker =
                        per_relay_parent.grid_tracker] = per_relay_parent]_vars

\* pC advertises the confirmed candidate c1 of group 0 as a candidate of
\* group 1: it is charged COST_INACCURATE_ADVERTISEMENT and the grid tracker
\* holds its manifest.
C38_InaccurateImported ==
    /\ event.name = "Manifest"
    /\ event.c = "c1"
    /\ reputation = <<[peer |-> "pC", rep |-> COST_INACCURATE_ADVERTISEMENT]>>
    /\ \E m \in per_relay_parent.grid_tracker.received : m.v = 3 /\ m.c = "c1"


(***************************************************************************)
(* Sessions and roles: a node whose keys make it an active validator, an   *)
(* inactive one or none activates and deactivates leaves while the         *)
(* topologies of the sessions arrive, and the grid peer pC advertises c3.  *)
(***************************************************************************)

MaxSessionEvents == 5

\* What the keystore and the gossip topology make of the node: a validator
\* of the session, an authority that the topology names, or neither.
Roles == {"active", "inactive", "none"}

InitSessions == \E role \in Roles : InitNoLeafAs({"pC"}, role)

NextSessions ==
    \/ Within(MaxSessionEvents) /\ ActiveLeaves(Hashes, {FALSE})
    \/ Within(MaxSessionEvents) /\ DeactivateLeaves(LeafSeqs)
    \/ Within(MaxSessionEvents) /\ NewGossipTopologyFor(Sessions)
    \/ Within(MaxSessionEvents) /\ IncomingManifest({"pC"}, {RP}, RoleManifests)

SpecSessions == InitSessions /\ [][NextSessions]_vars

\* C39: a tracked relay parent of a session whose PerSessionState records a
\* local validator role, active or inactive, has local-validator state with
\* a grid tracker, whatever the order of the session's topology and the
\* activation of the relay parent.
C39_RoleHasGridTracker ==
    (per_relay_parent.present
        /\ session_local_validator(State, SessionOfRP) # "none")
    => per_relay_parent.local_validator # "none"

\* The local-validator state of a relay parent is the role its session
\* records when the relay parent is activated, and it stays as it is while
\* the relay parent is tracked.
C39_RoleAsOfActivation ==
    [][per_relay_parent'.present
          => per_relay_parent'.local_validator =
                IF per_relay_parent.present
                THEN per_relay_parent.local_validator
                ELSE session_local_validator(State', SessionOfRP)]_vars

\* The topology of session 1 names the local node after RP was activated:
\* the session records an inactive validator, the relay parent none, and a
\* manifest of the grid peer pC is dropped without a reputation change.
C39_LateTopologyIgnored ==
    /\ event.name = "Manifest"
    /\ per_relay_parent.present
    /\ session_local_validator(State, SessionOfRP) = "inactive"
    /\ per_relay_parent.local_validator = "none"
    /\ reputation = <<>>
    /\ per_relay_parent.grid_tracker = EmptyGrid

\* C40: once a topology of session s was received, every PerSessionState of
\* s that exists afterwards has its grid view, also the one created anew
\* after leaf deactivation collected the session.
C40_TopologyRemembered ==
    \A s \in topologies : per_session[s] \in {"none", "topology"}

\* The topology of a session is in its PerSessionState, or cached, from
\* its arrival until leaf deactivation collects the session or the cache.
C40_TopologyKeptUntilCollected ==
    [][\A s \in Sessions :
          (per_session[s] = "topology" \/ s \in unused_topologies)
          => \/ per_session'[s] = "topology"
             \/ s \in unused_topologies'
             \/ event'.name = "DeactivateLeaves"]_vars

====
